---------------------------- MODULE Spec2Model ----------------------------
(***************************************************************************)
(* A model of the bytecode interpreter: the scanner, the single-pass Pratt *)
(* parser that emits bytecode into a Chunk, and the stack VM (Runtime)     *)
(* that executes it, driven by a sequence of interpret calls on one        *)
(* Runtime (the REPL).                                                     *)
(*                                                                         *)
(* Source text is a sequence of one-character strings.  Heap addresses are *)
(* allocation identities: every ObjRef::new returns an address never       *)
(* returned before, so a freed object's address identifies that object.    *)
(* Numbers are exact rationals [n, d] (d = 0 stands for the non-finite     *)
(* IEEE values).  Log output is not modelled, except the values printed by *)
(* the Print opcode and the count of runtime diagnostics.                  *)
(***************************************************************************)
EXTENDS Integers, Sequences, FiniteSets, TLC

(***************************************************************************)
(* Bounds of the model.                                                    *)
(***************************************************************************)
\* The number of interpret calls made on the one Runtime.
MaxCalls == 2

\* The number of operations made on the chunk being compiled.
MaxOps == 3

\* The number of calls made on a Peekable.
MaxPeeks == 5

\* The number of scope operations made on a parser, and the depth of the
\* blocks it opens.
MaxScopeOps == 6

MaxDepth == 3

(***************************************************************************)
(* Characters.                                                             *)
(***************************************************************************)
\* Option<char>::None, as returned by an exhausted character iterator.
NoChar == ""

Digits == {"0", "1", "2", "3", "4", "5", "6", "7", "8", "9"}

\* char::is_alphabetic, restricted to the ASCII lower-case letters.
Letters ==
    {"a", "b", "c", "d", "e", "f", "g", "h", "i", "j", "k", "l", "m",
     "n", "o", "p", "q", "r", "s", "t", "u", "v", "w", "x", "y", "z"}

\* The characters skip_spaces treats as white space.
Whitespace == {"\t", "\n", "\f", "\r", " "}

(***************************************************************************)
(* line.rs                                                                 *)
(***************************************************************************)
Line_new(line, col) == [line |-> line, col |-> col]

Line_advance(l, c) ==
    IF c = "\n" THEN [line |-> l.line + 1, col |-> 1]
    ELSE [line |-> l.line, col |-> l.col + 1]

(***************************************************************************)
(* scanner.rs: Peekable.  The underlying iterator is the source and the    *)
(* number of characters already taken from it (it); peek1 and peek2 are    *)
(* Option<Option<char>>: a flag (the outer Option) and a character or      *)
(* NoChar (the inner one).                                                 *)
(***************************************************************************)
Peekable_new ==
    [it |-> 0, p1set |-> FALSE, p1 |-> NoChar, p2set |-> FALSE, p2 |-> NoChar]

\* Chars::next: the item returned and the iterator position after it.
Iter_item(src, it) == IF it < Len(src) THEN src[it + 1] ELSE NoChar
Iter_after(src, it) == IF it < Len(src) THEN it + 1 ELSE it

\* A next that forgets the item peek2 has taken from the iterator.
Peekable_next_dropping_peek2(src, pk) ==
    LET result == IF pk.p1set THEN pk.p1 ELSE Iter_item(src, pk.it)
        it1 == IF pk.p1set THEN pk.it ELSE Iter_after(src, pk.it)
    IN  [r |-> result,
         pk |-> [it |-> it1, p1set |-> FALSE, p1 |-> NoChar,
                 p2set |-> FALSE, p2 |-> NoChar]]

Peekable_next(src, pk) ==
    LET result == IF pk.p1set THEN pk.p1 ELSE Iter_item(src, pk.it)
        it1 == IF pk.p1set THEN pk.it ELSE Iter_after(src, pk.it)
    IN  [r |-> result,
         pk |-> [it |-> it1, p1set |-> pk.p2set, p1 |-> pk.p2,
                 p2set |-> FALSE, p2 |-> NoChar]]

Peekable_peek1(src, pk) ==
    LET result == IF pk.p1set THEN pk.p1 ELSE Iter_item(src, pk.it)
        it1 == IF pk.p1set THEN pk.it ELSE Iter_after(src, pk.it)
    IN  [r |-> result,
         pk |-> [pk EXCEPT !.it = it1, !.p1set = TRUE, !.p1 = result]]

Peekable_peek2(src, pk) ==
    LET first == IF pk.p1set THEN pk.p1 ELSE Iter_item(src, pk.it)
        it1 == IF pk.p1set THEN pk.it ELSE Iter_after(src, pk.it)
        result == IF pk.p2set THEN pk.p2 ELSE Iter_item(src, it1)
        it2 == IF pk.p2set THEN it1 ELSE Iter_after(src, it1)
    IN  [r |-> result,
         pk |-> [it |-> it2, p1set |-> TRUE, p1 |-> first,
                 p2set |-> TRUE, p2 |-> result]]

(***************************************************************************)
(* scanner.rs: Scanner.  Operations that return a value and change the     *)
(* scanner return a record [r, sc] or [tok, sc].                           *)
(***************************************************************************)
Scanner_new(source) ==
    [source |-> source,
     chars |-> Peekable_new,
     start |-> 0,
     start_line |-> Line_new(1, 1),
     current |-> 0,
     line |-> Line_new(1, 1),
     beyond |-> NoChar]

new_token(sc, token_type) ==
    [token_type |-> token_type,
     contents |-> SubSeq(sc.source, sc.start + 1, sc.current),
     line |-> sc.start_line]

\* The contents of an error token is the message, a static string.
new_error(sc, message) ==
    [token_type |-> "Error", contents |-> message, line |-> sc.start_line]

Scanner_at_end(sc) == sc.current >= Len(sc.source)

Scanner_advance(sc) ==
    LET advanced(n) ==
            IF n.r # NoChar
            THEN [r |-> n.r,
                  sc |-> [sc EXCEPT !.chars = n.pk,
                                    !.current = @ + 1,
                                    !.line = Line_advance(@, n.r)]]
            ELSE [r |-> NoChar, sc |-> [sc EXCEPT !.chars = n.pk]]
    IN  advanced(Peekable_next(sc.source, sc.chars))

\* self.chars.peek1() and self.chars.peek2() on the scanner's iterator.
Scanner_peek1(sc) ==
    LET peeked(n) == [r |-> n.r, sc |-> [sc EXCEPT !.chars = n.pk]]
    IN  peeked(Peekable_peek1(sc.source, sc.chars))

\* A peek2 that looks one character ahead instead of two.
Scanner_peek2_one_ahead(sc) ==
    LET peeked(n) == [r |-> n.r, sc |-> [sc EXCEPT !.chars = n.pk]]
    IN  peeked(Peekable_peek1(sc.source, sc.chars))

Scanner_peek2(sc) ==
    LET peeked(n) == [r |-> n.r, sc |-> [sc EXCEPT !.chars = n.pk]]
    IN  peeked(Peekable_peek2(sc.source, sc.chars))

Scanner_matches(sc, val) ==
    LET matched(p) ==
            IF p.r = val
            THEN [r |-> TRUE, sc |-> Scanner_advance(p.sc).sc]
            ELSE [r |-> FALSE, sc |-> p.sc]
    IN  matched(Scanner_peek1(sc))

\* skip_spaces, the loop of a line comment.
RECURSIVE skip_line_comment(_)
skip_line_comment(sc) ==
    LET body(p) ==
            IF p.r # "\n" /\ ~Scanner_at_end(p.sc)
            THEN skip_line_comment(Scanner_advance(p.sc).sc)
            ELSE p.sc
    IN  body(Scanner_peek1(sc))

\* skip_spaces, the loop of a block comment: err when the source ends
\* first.  peek2 is called only when peek1 has returned '*'.
RECURSIVE skip_block_comment(_)
skip_block_comment(sc) ==
    LET body(a) ==
            IF Scanner_at_end(a) THEN [err |-> TRUE, sc |-> a]
            ELSE skip_block_comment(a)
        second(p2) ==
            IF p2.r = "/" THEN [err |-> FALSE, sc |-> p2.sc]
            ELSE body(Scanner_advance(p2.sc).sc)
        second_peek(star, s) ==
            second(IF star THEN Scanner_peek2(s) ELSE [r |-> NoChar, sc |-> s])
        first(p1) == second_peek(p1.r = "*", p1.sc)
    IN  first(Scanner_peek1(sc))

\* err is the message of Err(..), or "" for Ok(()).
RECURSIVE skip_spaces(_)
skip_spaces(sc) ==
    LET closed(b) ==
            IF b.err THEN [err |-> "Unclosed multiline comment", sc |-> b.sc]
            ELSE skip_spaces(Scanner_advance(Scanner_advance(b.sc).sc).sc)
        opened(s) ==
            closed(skip_block_comment(
                Scanner_advance(
                    Scanner_advance([s EXCEPT !.start_line = s.line]).sc).sc))
        slash(p2) ==
            IF p2.r = "/" THEN skip_spaces(skip_line_comment(p2.sc))
            ELSE IF p2.r = "*" THEN opened(p2.sc)
            ELSE [err |-> "", sc |-> p2.sc]
        first(p1) ==
            IF p1.r \in Whitespace
            THEN skip_spaces(Scanner_advance(p1.sc).sc)
            ELSE IF p1.r = "/" THEN slash(Scanner_peek2(p1.sc))
            ELSE [err |-> "", sc |-> p1.sc]
    IN  first(Scanner_peek1(sc))

RECURSIVE comsume_string(_)
comsume_string(sc) ==
    LET body(a) ==
            IF Scanner_at_end(a)
            THEN [tok |-> new_error(a, "Unclosed string"), sc |-> a]
            ELSE comsume_string(a)
        quote(m) ==
            IF m.r THEN [tok |-> new_token(m.sc, "StringLiteral"), sc |-> m.sc]
            ELSE body(Scanner_advance(m.sc).sc)
    IN  quote(Scanner_matches(sc, "\""))

\* comsume_number, the loop over a run of digits.
RECURSIVE consume_digits(_)
consume_digits(sc) ==
    LET body(p) ==
            IF p.r \in Digits
            THEN consume_digits(Scanner_advance(p.sc).sc)
            ELSE p.sc
    IN  body(Scanner_peek1(sc))

\* peek2 is called only when matches('.') has returned true.
comsume_number(sc) ==
    LET token(s2) == [tok |-> new_token(s2, "NumberLiteral"), sc |-> s2]
        fraction(p2) ==
            IF p2.r \in Digits THEN consume_digits(p2.sc) ELSE p2.sc
        point(m) == IF m.r THEN fraction(Scanner_peek2(m.sc)) ELSE m.sc
    IN  token(point(Scanner_matches(consume_digits(sc), ".")))

\* The byte at offset `byte` from the start of the source.  The pointer is
\* not checked against the length: an offset past the end reads the byte
\* that follows the source in memory (beyond).
get_byte(sc, byte) ==
    IF byte < Len(sc.source) THEN sc.source[byte + 1] ELSE sc.beyond

\* When start_offset is past current the usize subtraction wraps to a
\* length no keyword has (with overflow checks it panics instead); the
\* difference below is then negative and equals no length either.
check_keyword(sc, start_offset, val, token_type) ==
    IF /\ Len(val) = sc.current - (sc.start + start_offset)
       /\ SubSeq(sc.source, sc.start + start_offset + 1, sc.current) = val
    THEN token_type
    ELSE "Identifier"

\* comsume_ident, the loop over the alphanumeric characters.
RECURSIVE consume_alphanumeric(_)
consume_alphanumeric(sc) ==
    LET body(p) ==
            IF p.r \in Letters \cup Digits
            THEN consume_alphanumeric(Scanner_advance(p.sc).sc)
            ELSE p.sc
    IN  body(Scanner_peek1(sc))

\* comsume_ident, the match on the first bytes of the identifier.
keyword(s1, first, second) ==
    CASE first = "a" -> check_keyword(s1, 1, <<"n", "d">>, "And")
      [] first = "o" -> check_keyword(s1, 1, <<"r">>, "Or")
      [] first = "i" -> check_keyword(s1, 1, <<"f">>, "If")
      [] first = "e" -> check_keyword(s1, 1, <<"l", "s", "e">>, "Else")
      [] first = "t" -> check_keyword(s1, 1, <<"r", "u", "e">>, "True")
      [] first = "f" ->
            CASE second = "a" -> check_keyword(s1, 2, <<"l", "s", "e">>, "False")
              [] second = "o" -> check_keyword(s1, 2, <<"r">>, "For")
              [] second = "n" -> check_keyword(s1, 2, <<>>, "Fn")
              [] OTHER -> "Identifier"
      [] first = "r" ->
            check_keyword(s1, 1, <<"e", "t", "u", "r", "n">>, "Return")
      [] first = "l" -> check_keyword(s1, 1, <<"e", "t">>, "Let")
      [] first = "n" -> check_keyword(s1, 1, <<"u", "l", "l">>, "Null")
      [] first = "p" -> check_keyword(s1, 1, <<"r", "i", "n", "t">>, "Print")
      [] OTHER -> "Identifier"

comsume_ident(sc) ==
    LET token(s1) ==
            [tok |-> new_token(s1, keyword(s1, get_byte(s1, s1.start),
                                           get_byte(s1, s1.start + 1))),
             sc |-> s1]
    IN  token(consume_alphanumeric(sc))

\* Scanner::next, the token of a character that needs no look-ahead.
SingleCharToken(c) ==
    CASE c = "(" -> "LeftParen"
      [] c = ")" -> "RightParen"
      [] c = "{" -> "LeftBrace"
      [] c = "}" -> "RightBrace"
      [] c = "," -> "Comma"
      [] c = "." -> "Dot"
      [] c = "+" -> "Plus"
      [] c = "-" -> "Minus"
      [] c = ";" -> "Semicolon"
      [] c = "/" -> "Slash"
      [] c = "*" -> "Star"
      [] OTHER -> "None"

\* Scanner::next, a character that may be followed by '='.
TwoCharToken(sc, with_equals, without) ==
    LET token(m) ==
            [tok |-> new_token(m.sc, IF m.r THEN with_equals ELSE without),
             sc |-> m.sc]
    IN  token(Scanner_matches(sc, "="))

Scanner_next(sc) ==
    LET token(next, s1) ==
            CASE next = NoChar -> [tok |-> new_token(s1, "End"), sc |-> s1]
              [] SingleCharToken(next) # "None" ->
                    [tok |-> new_token(s1, SingleCharToken(next)), sc |-> s1]
              [] next = "!" -> TwoCharToken(s1, "EscamationEquals", "Escamation")
              [] next = "=" -> TwoCharToken(s1, "EqualsEquals", "Equals")
              [] next = ">" -> TwoCharToken(s1, "GreaterEqual", "Greater")
              [] next = "<" -> TwoCharToken(s1, "LessEqual", "Less")
              [] next = "\"" -> comsume_string(s1)
              [] next \in Digits -> comsume_number(s1)
              [] next \in Letters -> comsume_ident(s1)
              [] OTHER -> [tok |-> new_error(s1, "Unknown character"), sc |-> s1]
        advanced(a) == token(a.r, a.sc)
        skipped(sk) ==
            IF sk.err # ""
            THEN [tok |-> new_error(sk.sc, sk.err), sc |-> sk.sc]
            ELSE advanced(Scanner_advance(
                     [sk.sc EXCEPT !.start = sk.sc.current,
                                   !.start_line = sk.sc.line]))
    IN  skipped(skip_spaces(sc))

\* The tokens the calls of Scanner::next return from a scanner state on, up
\* to the first End token.  The scanner does not depend on its caller, so
\* the parser's scanner is kept as the tokens it has yet to return.
RECURSIVE Tokens(_)
TokensAfter(t) ==
    IF t.tok.token_type = "End" THEN <<t.tok>> ELSE <<t.tok>> \o Tokens(t.sc)

Tokens(sc) == TokensAfter(Scanner_next(sc))

\* Scanner::next on the tokens yet to return: at the end of the source
\* every call returns the same End token.
next_token(tokens) ==
    [tok |-> Head(tokens),
     sc |-> IF Len(tokens) > 1 THEN Tail(tokens) ELSE tokens]

(***************************************************************************)
(* chunk.rs: Value.  One record shape for the four variants; the fields a  *)
(* variant does not have hold a fixed filler.                              *)
(***************************************************************************)
Number(n, d) == [t |-> "Number", n |-> n, d |-> d, b |-> FALSE, ref |-> 0]
Bool(b) == [t |-> "Bool", n |-> 0, d |-> 1, b |-> b, ref |-> 0]
Null == [t |-> "Null", n |-> 0, d |-> 1, b |-> FALSE, ref |-> 0]
Obj(ref) == [t |-> "Obj", n |-> 0, d |-> 1, b |-> FALSE, ref |-> ref]

(***************************************************************************)
(* f64, as exact rationals n/d in lowest terms with d > 0; 1/0 and -1/0    *)
(* are the infinities and 0/0 is NaN.  Rounding and the sign of zero are   *)
(* not modelled.                                                           *)
(***************************************************************************)
Abs(x) == IF x < 0 THEN -x ELSE x
Sign(x) == IF x < 0 THEN -1 ELSE IF x > 0 THEN 1 ELSE 0

RECURSIVE GCD(_, _)
GCD(a, b) == IF b = 0 THEN a ELSE GCD(b, a % b)

\* The f64 n/d for d # 0, in lowest terms with a positive denominator.
Ratio(n, d) ==
    LET g == GCD(Abs(n), Abs(d))
        s == IF d < 0 THEN -1 ELSE 1
    IN  Number((s * n) \div g, (s * d) \div g)

NaN == Number(0, 0)
Infinity(sign) == Number(sign, 0)
IsNaN(x) == x.d = 0 /\ x.n = 0
IsInf(x) == x.d = 0 /\ x.n # 0

f64_neg(a) == Number(-a.n, a.d)

f64_add(a, b) ==
    CASE IsNaN(a) \/ IsNaN(b) -> NaN
      [] IsInf(a) /\ IsInf(b) -> IF a.n = b.n THEN a ELSE NaN
      [] IsInf(a) -> a
      [] IsInf(b) -> b
      [] OTHER -> Ratio(a.n * b.d + b.n * a.d, a.d * b.d)

f64_sub(a, b) == f64_add(a, f64_neg(b))

f64_mul(a, b) ==
    CASE IsNaN(a) \/ IsNaN(b) -> NaN
      [] IsInf(a) \/ IsInf(b) ->
            IF a.n = 0 \/ b.n = 0 THEN NaN ELSE Infinity(Sign(a.n) * Sign(b.n))
      [] OTHER -> Ratio(a.n * b.n, a.d * b.d)

f64_div(a, b) ==
    CASE IsNaN(a) \/ IsNaN(b) -> NaN
      [] IsInf(a) /\ IsInf(b) -> NaN
      [] IsInf(a) -> Infinity(IF b.n < 0 THEN -a.n ELSE a.n)
      [] IsInf(b) -> Number(0, 1)
      [] b.n = 0 -> IF a.n = 0 THEN NaN ELSE Infinity(Sign(a.n))
      [] OTHER -> Ratio(a.n * b.d, a.d * b.n)

\* The quotient a/b rounded toward zero, for finite a and finite b # 0.
TruncQuot(a, b) ==
    LET q == Ratio(a.n * b.d, a.d * b.n)
    IN  Sign(q.n) * (Abs(q.n) \div q.d)

\* The remainder of a/b with the sign of a (fmod).
f64_rem(a, b) ==
    CASE IsNaN(a) \/ IsNaN(b) -> NaN
      [] IsInf(a) -> NaN
      [] b.n = 0 -> NaN
      [] IsInf(b) -> a
      [] OTHER -> f64_sub(a, f64_mul(b, Number(TruncQuot(a, b), 1)))

\* A less-than that also holds of equal numbers.
f64_le(a, b) ==
    CASE IsNaN(a) \/ IsNaN(b) -> FALSE
      [] IsInf(a) /\ IsInf(b) -> a.n <= b.n
      [] IsInf(a) -> a.n < 0
      [] IsInf(b) -> b.n > 0
      [] OTHER -> a.n * b.d <= b.n * a.d

f64_lt(a, b) ==
    CASE IsNaN(a) \/ IsNaN(b) -> FALSE
      [] IsInf(a) /\ IsInf(b) -> a.n < b.n
      [] IsInf(a) -> a.n < 0
      [] IsInf(b) -> b.n > 0
      [] OTHER -> a.n * b.d < b.n * a.d

f64_gt(a, b) == f64_lt(b, a)

f64_eq(a, b) == ~IsNaN(a) /\ ~IsNaN(b) /\ a.n = b.n /\ a.d = b.d

\* The value of a decimal digit.
DigitValue(c) ==
    CASE c = "0" -> 0 [] c = "1" -> 1 [] c = "2" -> 2 [] c = "3" -> 3
      [] c = "4" -> 4 [] c = "5" -> 5 [] c = "6" -> 6 [] c = "7" -> 7
      [] c = "8" -> 8 [] c = "9" -> 9

\* f64::from_str on digits with at most one '.': [ok, val].  Digits before
\* the point accumulate in n, digits after it also multiply d by ten.
RECURSIVE from_str_digits(_, _, _, _)
from_str_digits(chars, n, d, seen_point) ==
    IF chars = <<>> THEN [ok |-> TRUE, val |-> Ratio(n, d)]
    ELSE LET c == Head(chars)
         IN  IF c \in Digits
             THEN from_str_digits(Tail(chars), 10 * n + DigitValue(c),
                                  IF seen_point THEN 10 * d ELSE d, seen_point)
             ELSE IF c = "." /\ ~seen_point
             THEN from_str_digits(Tail(chars), n, d, TRUE)
             ELSE [ok |-> FALSE, val |-> NaN]

f64_from_str(chars) ==
    IF \E i \in 1..Len(chars) : chars[i] \in Digits
    THEN from_str_digits(chars, 0, 1, FALSE)
    ELSE [ok |-> FALSE, val |-> NaN]

(***************************************************************************)
(* heap.rs.  The allocator: the next address to hand out and the live      *)
(* objects, each a type tag and its payload.                               *)
(***************************************************************************)
Mem_new == [next |-> 1, heap |-> <<>>]

\* Whether an ObjRef points at an object that has not been freed.
Live(mem, ref) == ref \in DOMAIN mem.heap

\* ObjRef::new on a String: the handle (the owning box holds the same
\* address) and the allocator after it.
ObjRef_new(mem, val) ==
    [ref |-> mem.next,
     mem |-> [next |-> mem.next + 1,
              heap |-> [a \in DOMAIN mem.heap \cup {mem.next} |->
                           IF a = mem.next THEN [ty |-> "Str", val |-> val]
                           ELSE mem.heap[a]]]]

\* ObjTy::free, and the drop of an owning Box<ObjTy>: the object is gone.
ObjTy_free(mem, ref) ==
    [mem EXCEPT !.heap = [a \in DOMAIN mem.heap \ {ref} |-> mem.heap[a]]]

RECURSIVE free_all(_, _)
free_all(mem, refs) ==
    IF refs = <<>> THEN mem
    ELSE free_all(ObjTy_free(mem, Head(refs)), Tail(refs))

\* ObjRef::as_ref::<String> on a live object.
as_ref(mem, ref) == mem.heap[ref].val

\* PartialEq for Value.
Value_eq(a, b) ==
    CASE a.t = "Number" /\ b.t = "Number" -> f64_eq(a, b)
      [] a.t = "Bool" /\ b.t = "Bool" -> a.b = b.b
      [] a.t = "Obj" /\ b.t = "Obj" -> a.ref = b.ref
      [] a.t = "Null" /\ b.t = "Null" -> TRUE
      [] OTHER -> FALSE

(***************************************************************************)
(* opcode.rs                                                               *)
(***************************************************************************)
OpReturn == 0
OpConstant == 1
OpLongConstant == 2
OpNegate == 3
OpAdd == 4
OpSubtract == 5
OpMultiply == 6
OpDivide == 7
OpNull == 8
OpTrue == 9
OpFalse == 10
OpNot == 11
OpEqual == 12
OpGreater == 13
OpLess == 14
OpPrint == 15
OpPop == 16
OpDefineGlobalVariable == 17
OpDefineLongGlobalVariable == 18
OpGetGlobalVariable == 19
OpGetLongGlobalVariable == 20
OpSetGlobal == 21
OpSetLongGlobal == 22
OpGetLocal == 23
OpGetLongLocal == 24
OpSetLocal == 25
OpSetLongLocal == 26
OpJump == 27
OpJumpIfFalse == 28
OpJumpBack == 29
OpModolo == 30
\* The variant the macro appends after the listed ones.
OpUnknown == 31

\* A conversion that takes the byte modulo the number of variants.
Opcode_from_wrapping(origin) == origin % (OpUnknown + 1)

\* impl From<u8> for Opcode.
Opcode_from(origin) == IF origin <= OpModolo THEN origin ELSE OpUnknown

\* `as u8` on a usize.
AsU8(x) == x % 256

(***************************************************************************)
(* chunk.rs: Chunk.  Indices into its vectors are zero-based, as in the    *)
(* source.  decls is debug information the model adds: for each local the  *)
(* parser declares, the code offset that follows its initialiser and its   *)
(* index in the parser's locals list.                                      *)
(***************************************************************************)
Chunk_EMPTY ==
    [code |-> <<>>, constants |-> <<>>, strings |-> <<>>, objects |-> <<>>,
     lines |-> <<>>, decls |-> <<>>]

\* A push that records no line for the byte.
Chunk_push_without_line(ch, code, line) ==
    [ch EXCEPT !.code = Append(@, code)]

Chunk_push(ch, code, line) ==
    [ch EXCEPT !.code = Append(@, code), !.lines = Append(@, line)]

Chunk_len(ch) == Len(ch.code)

make_constant(ch, constant) ==
    [id |-> Len(ch.constants),
     ch |-> [ch EXCEPT !.constants = Append(@, constant)]]

make_string(ch, mem, val) ==
    LET o == ObjRef_new(mem, val)
        ch1 == [ch EXCEPT !.objects = Append(@, o.ref),
                          !.strings = Append(@, o.ref)]
        c == make_constant(ch1, Obj(o.ref))
    IN  [id |-> c.id, ch |-> c.ch, mem |-> o.mem]

\* A push_constant that still takes the short form for the index 256.
push_constant_short_to_256(ch, id, line, short_op, long_op) ==
    IF id <= 256
    THEN Chunk_push(Chunk_push(ch, short_op, line), AsU8(id), line)
    ELSE Chunk_push(
             Chunk_push(
                 Chunk_push(Chunk_push(ch, long_op, line),
                            AsU8(id \div 65536), line),
                 AsU8(id \div 256), line),
             AsU8(id), line)

push_constant(ch, id, line, short_op, long_op) ==
    IF id <= 255
    THEN Chunk_push(Chunk_push(ch, short_op, line), AsU8(id), line)
    ELSE Chunk_push(
             Chunk_push(
                 Chunk_push(Chunk_push(ch, long_op, line),
                            AsU8(id \div 65536), line),
                 AsU8(id \div 256), line),
             AsU8(id), line)

Chunk_constant(ch, idx) == ch.constants[idx + 1]

(***************************************************************************)
(* compiler/precedence.rs                                                  *)
(***************************************************************************)
Precedence_None == 0
Precedence_Assignment == 1
Precedence_Or == 2
Precedence_And == 3
Precedence_Equality == 4
Precedence_Comparison == 5
Precedence_Term == 6
Precedence_Factor == 7
Precedence_Unary == 8
Precedence_Call == 9
Precedence_Primary == 10

\* A next that stays at the precedence it is given.
Precedence_same(prec) == prec

Precedence_next(prec) ==
    IF prec = Precedence_Primary THEN Precedence_Primary ELSE prec + 1

(***************************************************************************)
(* compiler/parse_rules.rs.  A parse function is named by a string; "none" *)
(* is Option::None.                                                        *)
(***************************************************************************)
ParseRule(prefix, infix, precedence) ==
    [prefix |-> prefix, infix |-> infix, precedence |-> precedence]

get_rule(token_type) ==
    CASE token_type = "LeftParen" -> ParseRule("grouping", "none", Precedence_None)
      [] token_type = "Minus" -> ParseRule("unary", "binary", Precedence_Term)
      [] token_type = "Plus" -> ParseRule("none", "binary", Precedence_Term)
      [] token_type = "Slash" -> ParseRule("none", "binary", Precedence_Factor)
      [] token_type = "Star" -> ParseRule("none", "binary", Precedence_Factor)
      [] token_type = "Escamation" -> ParseRule("unary", "none", Precedence_None)
      [] token_type = "EqualsEquals" ->
            ParseRule("none", "binary", Precedence_Comparison)
      [] token_type = "Greater" ->
            ParseRule("none", "binary", Precedence_Comparison)
      [] token_type = "GreaterEqual" ->
            ParseRule("none", "binary", Precedence_Comparison)
      [] token_type = "Less" -> ParseRule("none", "binary", Precedence_Comparison)
      [] token_type = "LessEqual" ->
            ParseRule("none", "binary", Precedence_Comparison)
      [] token_type = "StringLiteral" ->
            ParseRule("string", "none", Precedence_None)
      [] token_type = "NumberLiteral" ->
            ParseRule("number", "none", Precedence_None)
      [] token_type = "True" -> ParseRule("literal", "none", Precedence_None)
      [] token_type = "False" -> ParseRule("literal", "none", Precedence_None)
      [] token_type = "Null" -> ParseRule("literal", "none", Precedence_None)
      \* RightParen, LeftBrace, RightBrace, Comma, Dot, Semicolon,
      \* EscamationEquals, Equals, Identifier, And, Or, If, Else, For, While,
      \* Fn, Print, Return, Let, Error, End
      [] OTHER -> ParseRule("none", "none", Precedence_None)

(***************************************************************************)
(* compiler.rs: Parser.  mem is the allocator the chunk's strings are      *)
(* allocated from; diags are the messages error_at prints; panicked is set *)
(* where the source would panic (unreachable!, unwrap).                     *)
(***************************************************************************)
\* Option<Token>::None.
NoToken == [token_type |-> "None", contents |-> <<>>, line |-> Line_new(0, 0)]
IsSome(token) == token.token_type # "None"

Parser_new(source, chunk, mem) ==
    [scanner |-> Tokens(Scanner_new(source)),
     current |-> NoToken,
     previous |-> NoToken,
     error |-> FALSE,
     panic |-> FALSE,
     compiling_chunk |-> chunk,
     compiler |-> [locals |-> <<>>, depth |-> 0],
     mem |-> mem,
     diags |-> <<>>,
     panicked |-> FALSE]

check(p, token_type) ==
    IsSome(p.current) /\ p.current.token_type = token_type

Parser_at_end(p) == ~(IsSome(p.current) /\ p.current.token_type # "End")

error_at(p, token, message) ==
    IF p.panic THEN p ELSE [p EXCEPT !.diags = Append(@, message)]

error_at_current(p, message) ==
    IF IsSome(p.current)
    THEN [error_at(p, p.current, message) EXCEPT !.error = TRUE, !.panic = TRUE]
    ELSE p

error_at_previous(p, message) ==
    IF IsSome(p.previous)
    THEN [error_at(p, p.previous, message) EXCEPT !.error = TRUE, !.panic = TRUE]
    ELSE p

\* Parser::advance, the loop that skips the scanner's error tokens.
RECURSIVE advance_loop(_)
advance_loop(p) ==
    LET scanned(new) ==
            IF new.tok.token_type # "Error"
            THEN [p EXCEPT !.scanner = new.sc, !.current = new.tok]
            ELSE advance_loop(
                     error_at_current(
                         [p EXCEPT !.scanner = new.sc, !.current = new.tok],
                         new.tok.contents))
    IN  scanned(next_token(p.scanner))

Parser_advance(p) ==
    advance_loop([p EXCEPT !.previous = p.current, !.current = NoToken])

matches(p, token_type) ==
    IF check(p, token_type)
    THEN [r |-> TRUE, p |-> Parser_advance(p)]
    ELSE [r |-> FALSE, p |-> p]

emit_byte(p, byte) ==
    IF IsSome(p.previous)
    THEN [p EXCEPT !.compiling_chunk = Chunk_push(@, byte, p.previous.line)]
    ELSE p

emit_bytes(p, byte1, byte2) ==
    IF IsSome(p.previous)
    THEN [p EXCEPT !.compiling_chunk =
              Chunk_push(Chunk_push(@, byte1, p.previous.line),
                         byte2, p.previous.line)]
    ELSE p

emit_return(p) ==
    IF IsSome(p.previous)
    THEN [p EXCEPT !.compiling_chunk = Chunk_push(@, OpReturn, p.previous.line)]
    ELSE p

emit_constant(p, value) ==
    IF IsSome(p.previous)
    THEN LET c == make_constant(p.compiling_chunk, value)
         IN  [p EXCEPT !.compiling_chunk =
                  push_constant(c.ch, c.id, p.previous.line,
                                OpConstant, OpLongConstant)]
    ELSE p

emit_string(p, value) ==
    IF IsSome(p.previous)
    THEN LET c == make_string(p.compiling_chunk, p.mem, value)
         IN  [p EXCEPT !.compiling_chunk =
                  push_constant(c.ch, c.id, p.previous.line,
                                OpConstant, OpLongConstant),
                       !.mem = c.mem]
    ELSE p

consume(p, target, message) ==
    IF IsSome(p.current) /\ p.current.token_type = target
    THEN Parser_advance(p)
    ELSE error_at_current(p, message)

string(p, can_assign) ==
    IF IsSome(p.previous)
    THEN emit_string(p, SubSeq(p.previous.contents, 2,
                               Len(p.previous.contents) - 1))
    ELSE p

\* The index of the last local with the name, or -1 for None.
resolve_local(p, name) ==
    LET found == {i \in 1..Len(p.compiler.locals) :
                     p.compiler.locals[i].ident.contents = name.contents}
    IN  IF found = {} THEN -1
        ELSE (CHOOSE i \in found : \A j \in found : j <= i) - 1

\* The characters of a sequence that are not c.
RECURSIVE filter_out(_, _)
filter_out(chars, c) ==
    IF chars = <<>> THEN <<>>
    ELSE IF Head(chars) = c THEN filter_out(Tail(chars), c)
    ELSE <<Head(chars)>> \o filter_out(Tail(chars), c)

\* The unwrap of the parse result panics on Err.
number(p, can_assign) ==
    LET unwrapped(parsed) ==
            IF parsed.ok THEN emit_constant(p, parsed.val)
            ELSE [p EXCEPT !.panicked = TRUE]
    IN  IF IsSome(p.previous)
        THEN unwrapped(f64_from_str(filter_out(p.previous.contents, "_")))
        ELSE p

literal(p, can_assign) ==
    IF IsSome(p.previous)
    THEN CASE p.previous.token_type = "True" -> emit_byte(p, OpTrue)
           [] p.previous.token_type = "False" -> emit_byte(p, OpFalse)
           [] p.previous.token_type = "Null" -> emit_byte(p, OpNull)
           [] OTHER -> [p EXCEPT !.panicked = TRUE]
    ELSE p

\* emit_jump: r is the offset returned, p the parser after it.
emit_jump(p, opcode) ==
    LET emitted(p1) == [r |-> Chunk_len(p1.compiling_chunk) - 2, p |-> p1]
    IN  emitted(emit_bytes(emit_byte(p, opcode), 255, 255))

\* A patch_jump that writes a distance one byte short.
patch_jump_one_short(p, start) ==
    LET jump == Chunk_len(p.compiling_chunk) - start - 3
    IN  IF jump > 65535
        THEN error_at_current(p, "Jump too big")
        ELSE [p EXCEPT !.compiling_chunk.code =
                  [@ EXCEPT ![start + 1] = AsU8(jump \div 256),
                            ![start + 2] = AsU8(jump)]]

\* A patch_jump that rejects the distance u16::MAX as well.
patch_jump_below_max(p, start) ==
    LET jump == Chunk_len(p.compiling_chunk) - start - 2
    IN  IF jump >= 65535
        THEN error_at_current(p, "Jump too big")
        ELSE [p EXCEPT !.compiling_chunk.code =
                  [@ EXCEPT ![start + 1] = AsU8(jump \div 256),
                            ![start + 2] = AsU8(jump)]]

patch_jump(p, start) ==
    LET jump == Chunk_len(p.compiling_chunk) - start - 2
    IN  IF jump > 65535
        THEN error_at_current(p, "Jump too big")
        ELSE [p EXCEPT !.compiling_chunk.code =
                  [@ EXCEPT ![start + 1] = AsU8(jump \div 256),
                            ![start + 2] = AsU8(jump)]]

jump_back(p, to) ==
    LET jump == Chunk_len(p.compiling_chunk) + 3 - to
    IN  IF jump > 65535
        THEN error_at_current(p, "Jump too big")
        ELSE emit_bytes(emit_byte(p, OpJumpBack),
                        AsU8(jump \div 256), AsU8(jump))

begin_scope(p) == [p EXCEPT !.compiler.depth = @ + 1]

\* end_scope, the loop that pops the locals deeper than the current depth.
RECURSIVE end_scope_loop(_)
end_scope_loop(p) ==
    LET locals == p.compiler.locals
    IN  IF locals # <<>> /\ locals[Len(locals)].depth > p.compiler.depth
        THEN end_scope_loop(
                 [emit_byte(p, OpPop) EXCEPT !.compiler.locals =
                      SubSeq(locals, 1, Len(locals) - 1)])
        ELSE p

\* An end_scope that leaves the depth as it is.
end_scope_keeping_depth(p) == end_scope_loop(p)

end_scope(p) == end_scope_loop([p EXCEPT !.compiler.depth = @ - 1])

\* synchronise_error, the loop that skips to a statement boundary.
RECURSIVE synchronise_loop(_)
synchronise_loop(p) ==
    IF Parser_at_end(p) THEN p
    ELSE IF IsSome(p.previous) /\ p.previous.token_type = "Semicolon" THEN p
    ELSE IF p.current.token_type \in
                {"Fn", "Let", "For", "If", "Print", "Return"} THEN p
    ELSE synchronise_loop(Parser_advance(p))

synchronise_error(p) == synchronise_loop([p EXCEPT !.panic = FALSE])

declare_variable(p, token) ==
    IF p.compiler.depth = 0 THEN p
    ELSE [p EXCEPT !.compiler.locals =
                       Append(@, [ident |-> token, depth |-> p.compiler.depth]),
                   !.compiling_chunk.decls =
                       Append(@, [offset |-> Chunk_len(p.compiling_chunk),
                                  slot |-> Len(p.compiler.locals)])]

\* Option<(usize, Line)>: some is FALSE for None.
parse_variable(p, message) ==
    LET made(p1, c) ==
            [some |-> TRUE, id |-> c.id, line |-> p1.previous.line,
             p |-> [p1 EXCEPT !.compiling_chunk = c.ch, !.mem = c.mem]]
        consumed(p1) ==
            IF IsSome(p1.previous) /\ p1.compiler.depth = 0
            THEN made(p1, make_string(p1.compiling_chunk, p1.mem,
                                      p1.previous.contents))
            ELSE [some |-> FALSE, id |-> 0, line |-> Line_new(0, 0), p |-> p1]
    IN  consumed(consume(p, "Identifier", message))

define_variable(p, index, line) ==
    IF p.compiler.depth > 0 THEN p
    ELSE [p EXCEPT !.compiling_chunk =
              push_constant(@, index, line, OpDefineGlobalVariable,
                            OpDefineLongGlobalVariable)]

RECURSIVE parse_precedence(_, _)
RECURSIVE call_rule(_, _, _)
RECURSIVE infix_loop(_, _, _)
RECURSIVE declaration(_)

expression(p) == parse_precedence(p, Precedence_Assignment)

\* local is the result of resolve_local, -1 for None; index the local's
\* index or the constant made for the name.
named_variable(p, name, can_assign) ==
    LET local == resolve_local(p, name)
        push(p2, index, short, long) ==
            [p2 EXCEPT !.compiling_chunk =
                 push_constant(@, index, name.line, short, long)]
        assigned(p2, index) ==
            IF local >= 0 THEN push(p2, index, OpSetLocal, OpSetLongLocal)
            ELSE push(p2, index, OpSetGlobal, OpSetLongGlobal)
        read(p2, index) ==
            IF local >= 0 THEN push(p2, index, OpGetLocal, OpGetLongLocal)
            ELSE push(p2, index, OpGetGlobalVariable, OpGetLongGlobalVariable)
        matched(m, index) ==
            IF m.r THEN assigned(expression(m.p), index) ELSE read(m.p, index)
        resolved(p1, index) ==
            matched(IF can_assign THEN matches(p1, "Equals")
                    ELSE [r |-> FALSE, p |-> p1], index)
        unresolved(made) ==
            resolved([p EXCEPT !.compiling_chunk = made.ch, !.mem = made.mem],
                     made.id)
    IN  IF local >= 0 THEN resolved(p, local)
        ELSE unresolved(make_string(p.compiling_chunk, p.mem, name.contents))

variable(p, can_assign) ==
    IF IsSome(p.previous) THEN named_variable(p, p.previous, can_assign) ELSE p

grouping(p, can_assign) ==
    consume(expression(p), "RightParen", "Expected closing ')'")

unary(p, can_assign) ==
    LET emit(p1, token_type) ==
            CASE token_type = "Minus" -> emit_byte(p1, OpNegate)
              [] token_type = "Escamation" -> emit_byte(p1, OpNot)
              [] OTHER -> [p1 EXCEPT !.panicked = TRUE]
    IN  IF IsSome(p.previous)
        THEN emit(parse_precedence(p, Precedence_Unary), p.previous.token_type)
        ELSE p

binary(p, can_assign) ==
    LET emit(p1, operator) ==
            CASE operator = "Plus" -> emit_byte(p1, OpAdd)
              [] operator = "Minus" -> emit_byte(p1, OpSubtract)
              [] operator = "Star" -> emit_byte(p1, OpMultiply)
              [] operator = "Percentage" -> emit_byte(p1, OpModolo)
              [] operator = "Slash" -> emit_byte(p1, OpDivide)
              [] operator = "EqualsEquals" -> emit_byte(p1, OpEqual)
              [] operator = "Greater" -> emit_byte(p1, OpGreater)
              [] operator = "GreaterEqual" -> emit_bytes(p1, OpLess, OpNot)
              [] operator = "Less" -> emit_byte(p1, OpLess)
              [] operator = "LessEqual" -> emit_bytes(p1, OpGreater, OpNot)
              [] OTHER -> [p1 EXCEPT !.panicked = TRUE]
        rule == get_rule(p.previous.token_type).precedence
    IN  IF IsSome(p.previous)
        THEN emit(parse_precedence(p, Precedence_next(rule)),
                  p.previous.token_type)
        ELSE p

and(p, can_assign) ==
    LET jumped(jump_start) ==
            patch_jump(parse_precedence(emit_byte(jump_start.p, OpPop),
                                        Precedence_And),
                       jump_start.r)
    IN  jumped(emit_jump(p, OpJumpIfFalse))

or(p, can_assign) ==
    LET jumped_end(jump_end, jump_start) ==
            patch_jump(parse_precedence(
                           emit_byte(patch_jump(jump_end.p, jump_start), OpPop),
                           Precedence_Or),
                       jump_end.r)
        jumped_start(jump_start) ==
            jumped_end(emit_jump(jump_start.p, OpJump), jump_start.r)
    IN  jumped_start(emit_jump(p, OpJumpIfFalse))

\* The call of a parse function taken from a rule.
call_rule(name, p, can_assign) ==
    CASE name = "grouping" -> grouping(p, can_assign)
      [] name = "unary" -> unary(p, can_assign)
      [] name = "binary" -> binary(p, can_assign)
      [] name = "string" -> string(p, can_assign)
      [] name = "number" -> number(p, can_assign)
      [] name = "literal" -> literal(p, can_assign)
      [] name = "variable" -> variable(p, can_assign)
      [] name = "and" -> and(p, can_assign)
      [] name = "or" -> or(p, can_assign)

\* The rule's prefix or infix function called on the previous token, or
\* the error reported when the rule has none.
call_or_error(p, name, can_assign) ==
    IF name # "none" THEN call_rule(name, p, can_assign)
    ELSE error_at_previous(p, "Expected expression")

\* parse_precedence, the loop over the infix operators.
infix_loop(p, precedence, can_assign) ==
    LET advanced(p1) ==
            call_or_error(p1,
                          IF IsSome(p1.previous)
                          THEN get_rule(p1.previous.token_type).infix
                          ELSE "none",
                          can_assign)
    IN  IF precedence <= get_rule(p.current.token_type).precedence
        THEN infix_loop(advanced(Parser_advance(p)), precedence, can_assign)
        ELSE p

parse_precedence(p, precedence) ==
    LET can_assign == precedence <= Precedence_Assignment
        looped(p3) ==
            IF can_assign /\ check(p3, "Equals")
            THEN error_at_current(p3, "Invalid assignment target.")
            ELSE p3
        advanced(p1) ==
            call_or_error(p1,
                          IF IsSome(p1.previous)
                          THEN get_rule(p1.previous.token_type).prefix
                          ELSE "none",
                          can_assign)
    IN  looped(infix_loop(advanced(Parser_advance(p)), precedence, can_assign))

print_statement(p) ==
    LET p1 == consume(p, "LeftParen",
                  "Print statements must have a '(' after the print keyword")
        p2 == expression(p1)
        p3 == consume(p2, "RightParen", "Print statements must end with a ')'")
        p4 == consume(p3, "Semicolon", "Print statements must end with a ';'")
    IN  emit_byte(p4, OpPrint)

\* An expression statement that takes a ';' for a whole statement and
\* leaves it where it is.
expression_statement_at_semicolon(p) ==
    LET p1 == expression(p)
        p2 == consume(p1, "Semicolon", "Statements must end with a ';'")
    IN  IF check(p, "Semicolon") THEN p ELSE emit_byte(p2, OpPop)

expression_statement(p) ==
    LET p1 == expression(p)
        p2 == consume(p1, "Semicolon", "Statements must end with a ';'")
    IN  emit_byte(p2, OpPop)

\* block, the loop over the declarations up to the closing brace.
RECURSIVE block_loop(_)
block_loop(p) ==
    IF ~check(p, "RightBrace") /\ ~check(p, "End")
    THEN block_loop(declaration(p))
    ELSE p

block(p) == consume(block_loop(p), "RightBrace", "Blocks should end with '}'.")

\* The braces of an if or while statement: the consume of the '{',
\* begin_scope, block and end_scope.
braced_block(p, message) ==
    end_scope(block(begin_scope(consume(p, "LeftBrace", message))))

\* if_statement with the Pop that opens the then arm left out: the
\* condition value stays on the stack when the condition is true.
if_statement_without_then_pop(p) ==
    LET else_branch(m) ==
            IF m.r
            THEN braced_block(m.p, "If statements must contain a block")
            ELSE m.p
        jumped_else(else_jump, then_jump) ==
            patch_jump(
                else_branch(
                    matches(emit_byte(patch_jump(else_jump.p, then_jump), OpPop),
                            "Else")),
                else_jump.r)
        jumped_then(then_jump) ==
            jumped_else(
                emit_jump(braced_block(then_jump.p,
                                       "If statements must contain a block"),
                          OpJump),
                then_jump.r)
    IN  jumped_then(emit_jump(expression(p), OpJumpIfFalse))

if_statement(p) ==
    LET else_branch(m) ==
            IF m.r
            THEN braced_block(m.p, "If statements must contain a block")
            ELSE m.p
        jumped_else(else_jump, then_jump) ==
            patch_jump(
                else_branch(
                    matches(emit_byte(patch_jump(else_jump.p, then_jump), OpPop),
                            "Else")),
                else_jump.r)
        jumped_then(then_jump) ==
            jumped_else(
                emit_jump(braced_block(emit_byte(then_jump.p, OpPop),
                                       "If statements must contain a block"),
                          OpJump),
                then_jump.r)
    IN  jumped_then(emit_jump(expression(p), OpJumpIfFalse))

while_statement(p) ==
    LET loop_start == Chunk_len(p.compiling_chunk)
        jumped(exit) ==
            patch_jump(
                jump_back(braced_block(emit_byte(exit.p, OpPop),
                                       "While statements must contain a block"),
                          loop_start),
                exit.r)
    IN  jumped(emit_jump(expression(p), OpJumpIfFalse))

statement(p) ==
    IF check(p, "Print") THEN print_statement(matches(p, "Print").p)
    ELSE IF check(p, "If") THEN if_statement(matches(p, "If").p)
    ELSE IF check(p, "While") THEN while_statement(matches(p, "While").p)
    ELSE IF check(p, "LeftBrace")
    THEN end_scope(block(begin_scope(matches(p, "LeftBrace").p)))
    ELSE expression_statement(p)

variable_declaration(p) ==
    LET finished(p2, global, token) ==
            IF global.some THEN define_variable(p2, global.id, global.line)
            ELSE IF IsSome(token) THEN declare_variable(p2, token)
            ELSE p2
        initialiser(m) ==
            consume(IF m.r THEN expression(m.p) ELSE emit_byte(m.p, OpNull),
                    "Semicolon", "Expected ';' after variable declaration")
        parsed(global) ==
            finished(initialiser(matches(global.p, "Equals")),
                     global, global.p.previous)
    IN  parsed(parse_variable(p, "Expected variable name."))

declaration(p) ==
    LET declared(p1) == IF p1.panic THEN synchronise_error(p1) ELSE p1
    IN  declared(IF check(p, "Let")
                 THEN variable_declaration(matches(p, "Let").p)
                 ELSE statement(p))

\* compile, the loop over the declarations up to the End token.
RECURSIVE compile_loop(_)
compile_loop(p) ==
    IF IsSome(p.current) /\ p.current.token_type # "End"
    THEN compile_loop(declaration(p))
    ELSE p

\* Parser::compile: ok is the value returned; chunk and mem are the chunk
\* and the allocator after it.
compile(source, chunk, mem) ==
    LET compiled(p2) ==
            [ok |-> ~p2.error, chunk |-> p2.compiling_chunk, mem |-> p2.mem,
             diags |-> p2.diags, panicked |-> p2.panicked]
    IN  compiled(emit_return(compile_loop(
            Parser_advance(Parser_new(source, chunk, mem)))))

(***************************************************************************)
(* vm.rs: Runtime.  stack is the storage of the Vec: its first             *)
(* StackCapacity slots are the allocation made by Runtime::new, and a slot *)
(* beyond them is memory past the end of that allocation.  stack_top is    *)
(* the number of slots below the stack_top pointer; the slots at and above *)
(* it keep the values last written to them.  chunk is what the raw chunk   *)
(* pointer points at: "EMPTY", the "local" chunk of the running interpret  *)
(* call, or "dangling" once that chunk has been dropped.                   *)
(***************************************************************************)
\* Vec::with_capacity(5)
StackCapacity == 5

\* A slot of memory that has never been written.
Uninit == [t |-> "Uninit", n |-> 0, d |-> 1, b |-> FALSE, ref |-> 0]

Runtime_new ==
    [chunk |-> "EMPTY",
     ip |-> 0,
     stack |-> [i \in 1..StackCapacity |-> Uninit],
     stack_top |-> 0,
     objects |-> <<>>,
     strings |-> {},
     globals |-> <<>>]

reset_stack(rt) == [rt EXCEPT !.stack_top = 0]

\* free_objects: every owned object is freed and the vector is left empty.
free_objects(rt, mem) ==
    [rt |-> [rt EXCEPT !.objects = <<>>], mem |-> free_all(mem, rt.objects)]

\* A reset that leaves the intern set as it is.
Runtime_reset_keeping_strings(rt, mem) ==
    free_objects(reset_stack([rt EXCEPT !.chunk = "local", !.ip = 0]), mem)

Runtime_reset(rt, mem) ==
    LET rt1 == reset_stack([rt EXCEPT !.chunk = "local", !.ip = 0])
        f == free_objects(rt1, mem)
    IN  [rt |-> [f.rt EXCEPT !.strings = {}], mem |-> f.mem]

\* A new_string that allocates without looking the contents up.
new_string_always_allocating(rt, mem, val) ==
    LET o == ObjRef_new(mem, val)
    IN  [ref |-> o.ref,
         rt |-> [rt EXCEPT !.objects = Append(@, o.ref),
                           !.strings = @ \cup {o.ref}],
         mem |-> o.mem]

new_string(rt, mem, val) ==
    LET existing == {r \in rt.strings : as_ref(mem, r) = val}
    IN  IF existing # {}
        THEN [ref |-> CHOOSE r \in existing : TRUE, rt |-> rt, mem |-> mem]
        ELSE LET o == ObjRef_new(mem, val)
             IN  [ref |-> o.ref,
                  rt |-> [rt EXCEPT !.objects = Append(@, o.ref),
                                    !.strings = @ \cup {o.ref}],
                  mem |-> o.mem]

read_byte(rt, ch) == [r |-> ch.code[rt.ip + 1], rt |-> [rt EXCEPT !.ip = @ + 1]]

RECURSIVE read_bytes_loop(_, _, _, _)
read_bytes_loop(rt, ch, n, value) ==
    IF n = 0 THEN [r |-> value, rt |-> rt]
    ELSE LET b == read_byte(rt, ch)
         IN  read_bytes_loop(b.rt, ch, n - 1, value * 256 + b.r)

read_bytes(rt, ch, n) == read_bytes_loop(rt, ch, n, 0)

short_constant(rt, ch) ==
    LET b == read_byte(rt, ch)
    IN  [r |-> Chunk_constant(ch, b.r), rt |-> b.rt]

long_constant(rt, ch) ==
    LET b == read_bytes(rt, ch, 3)
    IN  [r |-> Chunk_constant(ch, b.r), rt |-> b.rt]

\* A write through a raw pointer to slot `index` of the stack's memory.
WriteSlot(stack, index, value) ==
    [i \in 1..(IF index < Len(stack) THEN Len(stack) ELSE index + 1) |->
        IF i = index + 1 THEN value
        ELSE IF i <= Len(stack) THEN stack[i]
        ELSE Uninit]

\* A read through a raw pointer of slot `index` of the stack's memory.
ReadSlot(stack, index) ==
    IF 0 <= index /\ index < Len(stack) THEN stack[index + 1] ELSE Uninit

\* push_stack.  The set_len call changes only the length the Vec records,
\* which nothing reads; the storage is never reallocated.
push_stack(rt, value) ==
    [rt EXCEPT !.stack = WriteSlot(@, rt.stack_top, value),
               !.stack_top = @ + 1]

set_stack(rt, index, value) ==
    [rt EXCEPT !.stack = WriteSlot(@, index, value)]

\* pop_stack: ok is FALSE for Err(InterpretError), the stack underflow.
pop_stack(rt) ==
    IF rt.stack_top = 0
    THEN [ok |-> FALSE, val |-> Uninit, rt |-> rt]
    ELSE [ok |-> TRUE,
          val |-> ReadSlot(rt.stack, rt.stack_top - 1),
          rt |-> [rt EXCEPT !.stack_top = @ - 1]]

peep_stack(rt, distance) == ReadSlot(rt.stack, rt.stack_top - distance - 1)

peep_bottom_stack(rt, distance) == ReadSlot(rt.stack, distance)

(***************************************************************************)
(* vm.rs: Runtime::interpret, one iteration of the dispatch loop.  A vm    *)
(* record is the Runtime (rt) with what an instruction can also change:    *)
(* the allocator (mem), the values printed (out), the number of error      *)
(* diagnostics of this call (rep), and how the iteration ends (ret):       *)
(* "continue", "Ok" and "Err" for the two returns, "panic".                *)
(***************************************************************************)
Err(vm, rt) == [vm EXCEPT !.rt = rt, !.rep = @ + 1, !.ret = "Err"]

\* A runtime_error! that ended the call as the stack underflow does.
runtime_error_returning(vm, rt, ch) == Err(vm, reset_stack(rt))

\* runtime_error!: the line of the current offset is looked up (a checked
\* index), the diagnostic is printed and the stack is reset.
runtime_error(vm, rt, ch) ==
    IF rt.ip >= Len(ch.lines)
    THEN [vm EXCEPT !.rt = rt, !.ret = "panic"]
    ELSE [vm EXCEPT !.rt = reset_stack(rt), !.rep = @ + 1]

Pushed(vm, rt, value) == [vm EXCEPT !.rt = push_stack(rt, value)]

\* binary_op!: op is the operation on two f64, result_bool whether the
\* result is wrapped as Value::Bool rather than Value::Number.
binary_result(opcode, a, b) ==
    CASE opcode = OpSubtract -> f64_sub(a, b)
      [] opcode = OpMultiply -> f64_mul(a, b)
      [] opcode = OpDivide -> f64_div(a, b)
      [] opcode = OpModolo -> f64_rem(a, b)
      [] opcode = OpGreater -> Bool(f64_gt(a, b))
      [] opcode = OpLess -> Bool(f64_lt(a, b))

binary_op(vm, rt, ch, opcode) ==
    LET b == pop_stack(rt)
        a == pop_stack(b.rt)
    IN  IF ~b.ok THEN Err(vm, b.rt)
        ELSE IF ~a.ok THEN Err(vm, a.rt)
        ELSE IF a.val.t = "Number" /\ b.val.t = "Number"
        THEN Pushed(vm, a.rt, binary_result(opcode, a.val, b.val))
        ELSE runtime_error(vm, a.rt, ch)

op_negate(vm, rt, ch) ==
    LET input == pop_stack(rt)
    IN  IF ~input.ok THEN Err(vm, input.rt)
        ELSE IF input.val.t = "Number"
        THEN Pushed(vm, input.rt, f64_neg(input.val))
        ELSE runtime_error(vm, input.rt, ch)

\* Add's get_str: whether the value is a string object.
is_str(mem, v) == v.t = "Obj" /\ Live(mem, v.ref) /\ mem.heap[v.ref].ty = "Str"

op_add(vm, rt, ch) ==
    LET b == pop_stack(rt)
        a == pop_stack(b.rt)
    IN  IF ~b.ok THEN Err(vm, b.rt)
        ELSE IF ~a.ok THEN Err(vm, a.rt)
        ELSE IF a.val.t = "Number" /\ b.val.t = "Number"
        THEN Pushed(vm, a.rt, f64_add(a.val, b.val))
        ELSE IF is_str(vm.mem, b.val) /\ is_str(vm.mem, a.val)
        THEN LET s == new_string(a.rt, vm.mem,
                          as_ref(vm.mem, a.val.ref) \o as_ref(vm.mem, b.val.ref))
             IN  [vm EXCEPT !.rt = push_stack(s.rt, Obj(s.ref)), !.mem = s.mem]
        ELSE runtime_error(vm, a.rt, ch)

op_not(vm, rt, ch) ==
    LET input == pop_stack(rt)
    IN  IF ~input.ok THEN Err(vm, input.rt)
        ELSE IF input.val.t = "Bool"
        THEN Pushed(vm, input.rt, Bool(~input.val.b))
        ELSE runtime_error(vm, input.rt, ch)

op_equal(vm, rt) ==
    LET b == pop_stack(rt)
        a == pop_stack(b.rt)
    IN  IF ~b.ok THEN Err(vm, b.rt)
        ELSE IF ~a.ok THEN Err(vm, a.rt)
        ELSE Pushed(vm, a.rt, Bool(Value_eq(a.val, b.val)))

\* What the Debug format of a value prints: for a string its characters.
Printed(mem, result) ==
    [ok |-> result.ok,
     val |-> result.val,
     str |-> IF result.ok /\ is_str(mem, result.val)
             THEN as_ref(mem, result.val.ref) ELSE <<>>]

\* Print logs the Result of pop_stack, Ok or Err, and goes on.
op_print(vm, rt) ==
    LET popped == pop_stack(rt)
    IN  [vm EXCEPT !.rt = popped.rt,
                   !.out = Append(@, Printed(vm.mem, popped)),
                   !.rep = IF popped.ok THEN @ ELSE @ + 1]

\* Pop discards the Result of pop_stack, Ok or Err, and goes on.
op_pop(vm, rt) ==
    LET popped == pop_stack(rt)
    IN  [vm EXCEPT !.rt = popped.rt, !.rep = IF popped.ok THEN @ ELSE @ + 1]

\* The name operand of a global instruction: the constant read, and the
\* string it names when it is a string object.
global_name(vm, rt, ch, long) ==
    LET c == IF long THEN long_constant(rt, ch) ELSE short_constant(rt, ch)
    IN  [is_name |-> is_str(vm.mem, c.r),
         name |-> IF is_str(vm.mem, c.r) THEN as_ref(vm.mem, c.r.ref) ELSE <<>>,
         rt |-> c.rt]

\* The globals map with the name bound to the value.
Insert(globals, name, value) ==
    [k \in DOMAIN globals \cup {name} |->
        IF k = name THEN value ELSE globals[k]]

\* A DefineGlobal that binds the name whether or not it is bound already.
op_define_global_overwriting(vm, rt, ch, long) ==
    LET g == global_name(vm, rt, ch, long)
        value == pop_stack(g.rt)
    IN  IF ~g.is_name THEN [vm EXCEPT !.rt = g.rt]
        ELSE IF ~value.ok THEN Err(vm, value.rt)
        ELSE [vm EXCEPT !.rt = [value.rt EXCEPT !.globals =
                                    Insert(@, g.name, value.val)]]

op_define_global(vm, rt, ch, long) ==
    LET g == global_name(vm, rt, ch, long)
        value == pop_stack(g.rt)
    IN  IF ~g.is_name THEN [vm EXCEPT !.rt = g.rt]
        ELSE IF ~value.ok THEN Err(vm, value.rt)
        ELSE IF g.name \in DOMAIN value.rt.globals
        THEN [runtime_error(vm, value.rt, ch) EXCEPT !.ret =
                 IF @ = "panic" THEN @ ELSE "Err"]
        ELSE [vm EXCEPT !.rt = [value.rt EXCEPT !.globals =
                                    Insert(@, g.name, value.val)]]

op_get_global(vm, rt, ch, long) ==
    LET g == global_name(vm, rt, ch, long)
    IN  IF ~g.is_name THEN [vm EXCEPT !.rt = g.rt]
        ELSE IF g.name \in DOMAIN g.rt.globals
        THEN Pushed(vm, g.rt, g.rt.globals[g.name])
        ELSE [runtime_error(vm, g.rt, ch) EXCEPT !.ret =
                 IF @ = "panic" THEN @ ELSE "Err"]

op_set_global(vm, rt, ch, long) ==
    LET g == global_name(vm, rt, ch, long)
        value == peep_stack(g.rt, 0)
    IN  IF ~g.is_name THEN [vm EXCEPT !.rt = g.rt]
        ELSE IF g.name \in DOMAIN g.rt.globals
        THEN [vm EXCEPT !.rt = [g.rt EXCEPT !.globals =
                                    Insert(@, g.name, value)]]
        ELSE [runtime_error(vm, g.rt, ch) EXCEPT !.ret =
                 IF @ = "panic" THEN @ ELSE "Err"]

\* The slot operand of a local instruction.
local_slot(rt, ch, long) ==
    IF long THEN read_bytes(rt, ch, 3) ELSE read_byte(rt, ch)

op_set_local(vm, rt, ch, long) ==
    LET slot == local_slot(rt, ch, long)
    IN  [vm EXCEPT !.rt = set_stack(slot.rt, slot.r, peep_stack(slot.rt, 0))]

op_get_local(vm, rt, ch, long) ==
    LET slot == local_slot(rt, ch, long)
    IN  Pushed(vm, slot.rt, peep_bottom_stack(slot.rt, slot.r))

op_jump(vm, rt, ch) ==
    LET offset == read_bytes(rt, ch, 2)
    IN  [vm EXCEPT !.rt = [offset.rt EXCEPT !.ip = @ + offset.r]]

\* A conditional jump that is taken on true instead of false.
op_jump_if_true(vm, rt, ch) ==
    LET offset == read_bytes(rt, ch, 2)
        x == peep_stack(offset.rt, 0)
    IN  IF x.t # "Bool" THEN runtime_error(vm, offset.rt, ch)
        ELSE IF x.b
        THEN [vm EXCEPT !.rt = [offset.rt EXCEPT !.ip = @ + offset.r]]
        ELSE [vm EXCEPT !.rt = offset.rt]

\* A conditional jump that pops the condition it tests.
op_jump_if_false_popping(vm, rt, ch) ==
    LET offset == read_bytes(rt, ch, 2)
        x == peep_stack(offset.rt, 0)
        popped == pop_stack(offset.rt).rt
    IN  IF x.t # "Bool" THEN runtime_error(vm, offset.rt, ch)
        ELSE IF ~x.b
        THEN [vm EXCEPT !.rt = [popped EXCEPT !.ip = @ + offset.r]]
        ELSE [vm EXCEPT !.rt = popped]

op_jump_if_false(vm, rt, ch) ==
    LET offset == read_bytes(rt, ch, 2)
        x == peep_stack(offset.rt, 0)
    IN  IF x.t # "Bool" THEN runtime_error(vm, offset.rt, ch)
        ELSE IF ~x.b
        THEN [vm EXCEPT !.rt = [offset.rt EXCEPT !.ip = @ + offset.r]]
        ELSE [vm EXCEPT !.rt = offset.rt]

op_jump_back(vm, rt, ch) ==
    LET offset == read_bytes(rt, ch, 2)
    IN  [vm EXCEPT !.rt = [offset.rt EXCEPT !.ip = @ - offset.r]]

\* The match on the opcode read at ip.
dispatch(vm, ch) ==
    LET instruction == read_byte(vm.rt, ch)
        opcode == Opcode_from(instruction.r)
        rt == instruction.rt
    IN  CASE opcode = OpUnknown -> [vm EXCEPT !.rt = rt]
          [] opcode = OpConstant ->
                LET c == short_constant(rt, ch) IN Pushed(vm, c.rt, c.r)
          [] opcode = OpLongConstant ->
                LET c == long_constant(rt, ch) IN Pushed(vm, c.rt, c.r)
          [] opcode = OpReturn -> [vm EXCEPT !.rt = rt, !.ret = "Ok"]
          [] opcode = OpNegate -> op_negate(vm, rt, ch)
          [] opcode = OpAdd -> op_add(vm, rt, ch)
          [] opcode \in {OpSubtract, OpMultiply, OpDivide, OpModolo,
                         OpGreater, OpLess} -> binary_op(vm, rt, ch, opcode)
          [] opcode = OpNull -> Pushed(vm, rt, Null)
          [] opcode = OpTrue -> Pushed(vm, rt, Bool(TRUE))
          [] opcode = OpFalse -> Pushed(vm, rt, Bool(FALSE))
          [] opcode = OpNot -> op_not(vm, rt, ch)
          [] opcode = OpEqual -> op_equal(vm, rt)
          [] opcode = OpPrint -> op_print(vm, rt)
          [] opcode = OpPop -> op_pop(vm, rt)
          [] opcode \in {OpDefineGlobalVariable, OpDefineLongGlobalVariable} ->
                op_define_global(vm, rt, ch, opcode = OpDefineLongGlobalVariable)
          [] opcode \in {OpGetGlobalVariable, OpGetLongGlobalVariable} ->
                op_get_global(vm, rt, ch, opcode = OpGetLongGlobalVariable)
          [] opcode \in {OpSetGlobal, OpSetLongGlobal} ->
                op_set_global(vm, rt, ch, opcode = OpSetLongGlobal)
          [] opcode \in {OpSetLocal, OpSetLongLocal} ->
                op_set_local(vm, rt, ch, opcode = OpSetLongLocal)
          [] opcode \in {OpGetLocal, OpGetLongLocal} ->
                op_get_local(vm, rt, ch, opcode = OpGetLongLocal)
          [] opcode = OpJump -> op_jump(vm, rt, ch)
          [] opcode = OpJumpIfFalse -> op_jump_if_false(vm, rt, ch)
          [] opcode = OpJumpBack -> op_jump_back(vm, rt, ch)

(***************************************************************************)
(* The sources given to interpret, as the REPL or run_file would.          *)
(***************************************************************************)
\* print("a"=="a");: two literals with the same text compared
SrcEqualLiterals ==
    <<"p", "r", "i", "n", "t", "(", "\"", "a", "\"", "=", "=", "\"",
      "a", "\"", ")", ";">>

\* print("ab"=="a"+"b");print("a"+"b"=="a"+"b");: a literal against a concatenation, then two concatenations
SrcEqualConcats ==
    <<"p", "r", "i", "n", "t", "(", "\"", "a", "b", "\"", "=", "=",
      "\"", "a", "\"", "+", "\"", "b", "\"", ")", ";", "p", "r", "i",
      "n", "t", "(", "\"", "a", "\"", "+", "\"", "b", "\"", "=", "=",
      "\"", "a", "\"", "+", "\"", "b", "\"", ")", ";">>

\* let a="hi";: a global bound to a string literal
SrcLetString ==
    <<"l", "e", "t", " ", "a", "=", "\"", "h", "i", "\"", ";">>

\* let s="x"+"y";: a global bound to a concatenation
SrcLetConcat ==
    <<"l", "e", "t", " ", "s", "=", "\"", "x", "\"", "+", "\"", "y",
      "\"", ";">>

\* let a=1;let a=2;: a global defined twice in one call
SrcLetTwice ==
    <<"l", "e", "t", " ", "a", "=", "1", ";", "l", "e", "t", " ", "a",
      "=", "2", ";">>

\* -true;: a unary operator on the wrong type
SrcNegateBool ==
    <<"-", "t", "r", "u", "e", ";">>

\* print(1+"x");: a binary operator on the wrong types, printed
SrcAddMismatch ==
    <<"p", "r", "i", "n", "t", "(", "1", "+", "\"", "x", "\"", ")", ";">>

\* !1;1-true;1*true;1/true;1<true;1>true;: each unary and binary operator on the wrong type
SrcMismatches ==
    <<"!", "1", ";", "1", "-", "t", "r", "u", "e", ";", "1", "*", "t", "r",
      "u", "e", ";", "1", "/", "t", "r", "u", "e", ";", "1", "<", "t", "r",
      "u", "e", ";", "1", ">", "t", "r", "u", "e", ";">>

\* {let a;let b;let c;let d;let e;let f;}: six locals alive at once
SrcSixLocals ==
    <<"{", "l", "e", "t", " ", "a", ";", "l", "e", "t", " ", "b", ";",
      "l", "e", "t", " ", "c", ";", "l", "e", "t", " ", "d", ";", "l",
      "e", "t", " ", "e", ";", "l", "e", "t", " ", "f", ";", "}">>

\* {let a=1;-true;let b=2;}: a local declared after a type mismatch in its block
SrcLocalAfterError ==
    <<"{", "l", "e", "t", " ", "a", "=", "1", ";", "-", "t", "r", "u",
      "e", ";", "l", "e", "t", " ", "b", "=", "2", ";", "}">>

\* {let a=1;if false{let b=2;}let c=3;}: a local declared after an if with a nested block
SrcLocalAfterIf ==
    <<"{", "l", "e", "t", " ", "a", "=", "1", ";", "i", "f", " ", "f",
      "a", "l", "s", "e", "{", "l", "e", "t", " ", "b", "=", "2", ";",
      "}", "l", "e", "t", " ", "c", "=", "3", ";", "}">>

\* if true{print(1);}else{print(2);}print(3);: if/else and print statements
SrcIfElse ==
    <<"i", "f", " ", "t", "r", "u", "e", "{", "p", "r", "i", "n", "t",
      "(", "1", ")", ";", "}", "e", "l", "s", "e", "{", "p", "r", "i",
      "n", "t", "(", "2", ")", ";", "}", "p", "r", "i", "n", "t", "(",
      "3", ")", ";">>

\* while false{}: a while loop (while is scanned as an identifier)
SrcWhile ==
    <<"w", "h", "i", "l", "e", " ", "f", "a", "l", "s", "e", "{", "}">>

\* print(y);: a variable read
SrcUnknownVariable ==
    <<"p", "r", "i", "n", "t", "(", "y", ")", ";">>

\* print(1);@: a statement followed by a character the scanner rejects
SrcUnknownCharacter ==
    <<"p", "r", "i", "n", "t", "(", "1", ")", ";", "@">>

\* if false{print(1);}else{print(2);}if false{print(3);}print(4);: a false condition with and without an else arm
SrcIfFalse ==
    <<"i", "f", " ", "f", "a", "l", "s", "e", "{", "p", "r", "i", "n", "t",
      "(", "1", ")", ";", "}", "e", "l", "s", "e", "{", "p", "r", "i", "n",
      "t", "(", "2", ")", ";", "}", "i", "f", " ", "f", "a", "l", "s", "e",
      "{", "p", "r", "i", "n", "t", "(", "3", ")", ";", "}", "p", "r", "i",
      "n", "t", "(", "4", ")", ";">>

\* print(1+2*3);print(8-3-2);print(-2+3);print(8/4/2);: precedence and associativity of the arithmetic operators
SrcArithmetic ==
    <<"p", "r", "i", "n", "t", "(", "1", "+", "2", "*", "3", ")", ";", "p",
      "r", "i", "n", "t", "(", "8", "-", "3", "-", "2", ")", ";", "p", "r",
      "i", "n", "t", "(", "-", "2", "+", "3", ")", ";", "p", "r", "i", "n",
      "t", "(", "8", "/", "4", "/", "2", ")", ";">>

\* print(true==1<2);: an equality whose right operand is a comparison
SrcEqualityComparison ==
    <<"p", "r", "i", "n", "t", "(", "t", "r", "u", "e", "=", "=", "1", "<",
      "2", ")", ";">>

\* print(true and false);print(true or false);: the logical operators
SrcAndOr ==
    <<"p", "r", "i", "n", "t", "(", "t", "r", "u", "e", " ", "a", "n", "d",
      " ", "f", "a", "l", "s", "e", ")", ";", "p", "r", "i", "n", "t", "(",
      "t", "r", "u", "e", " ", "o", "r", " ", "f", "a", "l", "s", "e", ")",
      ";">>

\* let a=1;let b=2;a=b=3;: a chained assignment to globals
SrcAssignment ==
    <<"l", "e", "t", " ", "a", "=", "1", ";", "l", "e", "t", " ", "b", "=",
      "2", ";", "a", "=", "b", "=", "3", ";">>

\* {let a=1;{let a=2;print(a);}print(a);}: a local read inside and after the block that shadows it
SrcShadowing ==
    <<"{", "l", "e", "t", " ", "a", "=", "1", ";", "{", "l", "e", "t", " ",
      "a", "=", "2", ";", "p", "r", "i", "n", "t", "(", "a", ")", ";", "}",
      "p", "r", "i", "n", "t", "(", "a", ")", ";", "}">>

\* print(1%2);print(1!=2);: the modulo and inequality operators
SrcModuloNotEqual ==
    <<"p", "r", "i", "n", "t", "(", "1", "%", "2", ")", ";", "p", "r", "i",
      "n", "t", "(", "1", "!", "=", "2", ")", ";">>

\* print(1_0);: a number literal with an underscore between its digits
SrcUnderscore ==
    <<"p", "r", "i", "n", "t", "(", "1", "_", "0", ")", ";">>

\* if true{}if false{}: two if statements
SrcTwoIfs ==
    <<"i", "f", " ", "t", "r", "u", "e", "{", "}",
      "i", "f", " ", "f", "a", "l", "s", "e", "{", "}">>

\* if 1{print(2);}print(3);: an if statement whose condition is a number
SrcIfNumber ==
    <<"i", "f", " ", "1", "{", "p", "r", "i", "n", "t", "(", "2", ")", ";",
      "}", "p", "r", "i", "n", "t", "(", "3", ")", ";">>

\* 1=2;: an assignment to a number
SrcAssignNumber ==
    <<"1", "=", "2", ";">>

\* a+b=c;: an assignment to a sum
SrcAssignSum ==
    <<"a", "+", "b", "=", "c", ";">>

\*  // c: a space, a line comment and the end of the line
SrcOnlyComment ==
    <<" ", "/", "/", "c", "\n">>

\* (nothing): the empty source
SrcEmpty ==
    << >>

Programs ==
    {SrcEqualLiterals,
     SrcEqualConcats,
     SrcLetString,
     SrcLetConcat,
     SrcLetTwice,
     SrcNegateBool,
     SrcAddMismatch,
     SrcMismatches,
     SrcSixLocals,
     SrcLocalAfterError,
     SrcLocalAfterIf,
     SrcIfElse,
     SrcWhile,
     SrcUnknownVariable,
     SrcUnknownCharacter,
     SrcIfFalse,
     SrcArithmetic,
     SrcEqualityComparison,
     SrcAndOr,
     SrcAssignment,
     SrcShadowing,
     SrcModuloNotEqual,
     SrcUnderscore,
     SrcTwoIfs,
     SrcIfNumber,
     SrcAssignNumber,
     SrcAssignSum,
     SrcOnlyComment,
     SrcEmpty}

(***************************************************************************)
(* The state: one Runtime, as the REPL keeps it across its interpret       *)
(* calls, and the interpret call in progress.                              *)
(*   pc        "idle" between calls, "running" inside the dispatch loop,   *)
(*             "halted" once the process has ended abnormally              *)
(*   result    what the last interpret call returned ("none" before the    *)
(*             first), or how the process ended ("panic", "crash")         *)
(*   calls     interpret calls made so far                                 *)
(*   source    the source of the last interpret call                       *)
(*   chunk     the chunk local to the running interpret call               *)
(*   runtime   the Runtime                                                 *)
(*   mem       the allocator                                               *)
(*   output    what Print has written, over all calls                      *)
(*   reported  error diagnostics written during the last call, by the      *)
(*             parser and by the dispatch loop                             *)
(*   scanner   a Scanner used on its own, as the scanner test does         *)
(*   token     the token its last call of next returned                    *)
(*   compiling a Parser in the middle of a compile, with the jumps it has  *)
(*             yet to patch and the loops it has yet to close              *)
(*   peeking   a Peekable used on its own, as the peekable test does, with *)
(*             what its calls have returned                                *)
(*   process   the arguments the program was started with and what main   *)
(*             has done with them                                          *)
(***************************************************************************)
VARIABLES pc, result, calls, source, chunk, runtime, mem, output, reported,
          scanner, token, compiling, peeking, process

vars ==
    <<pc, result, calls, source, chunk, runtime, mem, output, reported,
      scanner, token, compiling, peeking, process>>

\* A process started with the arguments argv (argv[1] is the name the
\* program was started under), before main has run.
Process_new(argv) == [argv |-> argv, outcome |-> [kind |-> "none"]]

\* Peekable::new over the characters of the source.  taken holds what the
\* calls of next have returned, last the call made last and what it
\* returned, and ops the number of calls made.
Peeking_new ==
    [pk |-> Peekable_new,
     taken |-> <<>>,
     last |-> [op |-> "none", r |-> NoChar],
     ops |-> 0]

\* A Parser that has consumed the first token of null; and has emitted
\* nothing yet.  jumps holds the offsets emit_jump has returned and
\* patch_jump has not been given yet, loops the loop starts; last is the
\* operation made last and ops the number of operations made.
Compiling_new ==
    [p |-> Parser_advance(Parser_advance(
               Parser_new(<<"n", "u", "l", "l", ";">>, Chunk_EMPTY, Mem_new))),
     jumps |-> {},
     loops |-> {},
     ops |-> 0,
     last |-> [op |-> "none", arg |-> 0]]

\* Runtime::new(&Chunk::EMPTY), before the first interpret call.
Init ==
    /\ pc = "idle"
    /\ result = "none"
    /\ calls = 0
    /\ source = <<>>
    /\ chunk = Chunk_EMPTY
    /\ runtime = Runtime_new
    /\ mem = Mem_new
    /\ output = <<>>
    /\ reported = 0
    /\ scanner = Scanner_new(<<>>)
    /\ token = NoToken
    /\ compiling = Compiling_new
    /\ peeking = Peeking_new
    /\ process = Process_new(<<>>)

\* The drop of interpret's local chunk when the call returns.
drop_chunk(m, ch) == free_all(m, ch.objects)

\* An interpret that loads the chunk into the Runtime before it looks at
\* what Parser::compile returned.
Compiled_after_reset(c) ==
    LET r == Runtime_reset(runtime, c.mem)
    IN  /\ reported' = Len(c.diags)
        /\ IF c.panicked
           THEN /\ pc' = "halted"
                /\ result' = "panic"
                /\ mem' = c.mem
                /\ UNCHANGED <<chunk, runtime, output>>
           ELSE IF ~c.ok
           THEN /\ pc' = "idle"
                /\ result' = "CompileError"
                /\ runtime' = [r.rt EXCEPT !.chunk = "dangling"]
                /\ mem' = drop_chunk(r.mem, c.chunk)
                /\ UNCHANGED <<chunk, output>>
           ELSE IF Chunk_len(c.chunk) = 0
           THEN /\ pc' = "halted"
                /\ result' = "panic"
                /\ runtime' = r.rt
                /\ mem' = r.mem
                /\ UNCHANGED <<chunk, output>>
           ELSE /\ pc' = "running"
                /\ result' = "none"
                /\ chunk' = c.chunk
                /\ runtime' = r.rt
                /\ mem' = r.mem
                /\ UNCHANGED output

\* bytecode::interpret from the return of Parser::compile (c) up to the
\* first iteration of the dispatch loop: the early return on a compile
\* error, Runtime::reset and the assertion that opens Runtime::interpret.
\* reported counts the diagnostics the parser printed.
Compiled(c) ==
    LET r == Runtime_reset(runtime, c.mem)
    IN  /\ reported' = Len(c.diags)
        /\ IF c.panicked
           THEN /\ pc' = "halted"
                /\ result' = "panic"
                /\ mem' = c.mem
                /\ UNCHANGED <<chunk, runtime, output>>
           ELSE IF ~c.ok
           THEN /\ pc' = "idle"
                /\ result' = "CompileError"
                /\ mem' = drop_chunk(c.mem, c.chunk)
                /\ UNCHANGED <<chunk, runtime, output>>
           ELSE IF Chunk_len(c.chunk) = 0
           THEN /\ pc' = "halted"
                /\ result' = "panic"
                /\ runtime' = r.rt
                /\ mem' = r.mem
                /\ UNCHANGED <<chunk, output>>
           ELSE /\ pc' = "running"
                /\ result' = "none"
                /\ chunk' = c.chunk
                /\ runtime' = r.rt
                /\ mem' = r.mem
                /\ UNCHANGED output

\* A call of bytecode::interpret on the Runtime, up to the first iteration
\* of the dispatch loop.
Interpret(src) ==
    /\ pc = "idle"
    /\ calls < MaxCalls
    /\ calls' = calls + 1
    /\ source' = src
    /\ Compiled(compile(src, Chunk_EMPTY, mem))
    /\ UNCHANGED <<scanner, token, compiling, peeking, process>>

\* Whether the instruction wrote a stack slot that lies past the end of
\* the Vec's allocation.
PastEnd(before, after) ==
    \/ Len(after.stack) > Len(before.stack)
    \/ after.stack_top > before.stack_top /\ after.stack_top > StackCapacity

\* A write past the end of the allocation is undefined behaviour: the
\* build either carries on with the value in the memory that follows the
\* allocation, or the process is killed.
Outcomes(before, vm) ==
    IF PastEnd(before, vm.rt) THEN {vm.ret, "crash"} ELSE {vm.ret}

\* The state after an iteration of the dispatch loop that ended as vm: when
\* Runtime::interpret returns, the rest of bytecode::interpret follows, which
\* on Ok sets the chunk pointer to Chunk::EMPTY, on Err leaves it as it is,
\* and drops the chunk.
Executed(vm) ==
    \E outcome \in Outcomes(runtime, vm) :
        /\ output' = vm.out
        /\ reported' = vm.rep
        /\ CASE outcome = "continue" ->
                  /\ pc' = "running"
                  /\ runtime' = vm.rt
                  /\ mem' = vm.mem
                  /\ UNCHANGED <<result, chunk>>
             [] outcome = "Ok" ->
                  /\ pc' = "idle"
                  /\ result' = "Ok"
                  /\ runtime' = [vm.rt EXCEPT !.chunk = "EMPTY"]
                  /\ mem' = drop_chunk(vm.mem, chunk)
                  /\ chunk' = Chunk_EMPTY
             [] outcome = "Err" ->
                  /\ pc' = "idle"
                  /\ result' = "InterpretError"
                  /\ runtime' = [vm.rt EXCEPT !.chunk = "dangling"]
                  /\ mem' = drop_chunk(vm.mem, chunk)
                  /\ chunk' = Chunk_EMPTY
             [] outcome \in {"panic", "crash"} ->
                  /\ pc' = "halted"
                  /\ result' = outcome
                  /\ runtime' = vm.rt
                  /\ mem' = vm.mem
                  /\ UNCHANGED chunk

\* The Runtime and what an instruction can change with it, before an
\* iteration of the dispatch loop.
Machine ==
    [rt |-> runtime, mem |-> mem, out |-> output, rep |-> reported,
     ret |-> "continue"]

\* One iteration of the dispatch loop of Runtime::interpret.  A read of the
\* instruction past the end of the code is undefined behaviour.
Step ==
    /\ pc = "running"
    /\ Executed(IF runtime.ip >= Chunk_len(chunk)
                THEN [Machine EXCEPT !.ret = "crash"]
                ELSE dispatch(Machine, chunk))
    /\ UNCHANGED <<calls, source, scanner, token, compiling, peeking,
                   process>>

Next ==
    \/ \E src \in Programs : Interpret(src)
    \/ Step

Spec == Init /\ [][Next]_vars

(***************************************************************************)
(* The scanner on its own: a Scanner is made over a source and next is     *)
(* called until it returns the End token, as the test of scanner.rs does.  *)
(***************************************************************************)
\* The words the sources are made of: the keywords of the language, a few
\* other words, every non-empty prefix of these and their extensions by a
\* letter or a digit.
BaseWords ==
    {<<"a", "n", "d">>, <<"o", "r">>, <<"i", "f">>, <<"e", "l", "s", "e">>,
     <<"t", "r", "u", "e">>, <<"f", "a", "l", "s", "e">>, <<"f", "o", "r">>,
     <<"w", "h", "i", "l", "e">>, <<"f", "n">>,
     <<"r", "e", "t", "u", "r", "n">>, <<"l", "e", "t">>,
     <<"n", "u", "l", "l">>, <<"p", "r", "i", "n", "t">>,
     <<"x">>, <<"f", "x">>, <<"b", "l", "o", "b">>}

Prefixes(w) == {SubSeq(w, 1, n) : n \in 1..Len(w)}

Extensions(w) == {w \o <<c>> : c \in {"s", "c", "2"}}

ScanWords == UNION {Prefixes(w) \cup Extensions(w) : w \in BaseWords}

\* What follows the word in the source: nothing, or a token of its own.
ScanSuffixes == {<<>>, <<";">>, <<" ", "f">>}

WordSources == {w \o s : w \in ScanWords, s \in ScanSuffixes}

\* Number literals with and without a fraction, and what follows them.
NumberTexts ==
    {<<"1", ".", "5">>, <<"1", ".">>, <<"1", ".", "2", "5">>,
     <<"1", "2", ".", "5">>, <<"7">>}

NumberSuffixes == {<<>>, <<";">>, <<")">>, <<"x">>, <<" ", "2">>, <<".", "3">>}

NumberSources == {n \o s : n \in NumberTexts, s \in NumberSuffixes}

\* Sources that open with a block comment: closed ones followed by tokens
\* (the first holds a second opening and a second closing), and unclosed
\* ones.
CommentSources ==
    {<<"/", "*", " ", "/", "*", "n", " ", "*", "/", " ", "*", "/">>,
     <<"/", "*", "x", "*", "/", ";">>,
     <<"/", "*", "*", "/", "x">>,
     <<"/", "*", "*", "*", "/", "1">>,
     <<"/", "*", "/", "*", "/", "f">>,
     <<"/", "*", "x", "*", "/", "/", "*", "y", "*", "/", ";">>,
     <<"/", "*">>,
     <<"/", "*", "x">>,
     <<"/", "*", "/">>,
     <<"/", "*", " ", "*">>,
     <<"/", "*", "x", "*", " ", "/">>,
     <<"/", "*", "x", "*", "/", "/", "*", "y">>}

ScanSources == WordSources \cup NumberSources \cup CommentSources

\* The byte that follows the source in memory: one of the three bytes
\* comsume_ident tells apart after an f, or any other byte.
BeyondBytes == {"a", "o", "n", "x"}

\* Scanner::new(source), with nothing else of the program running.
ScanInit ==
    /\ pc = "idle"
    /\ result = "none"
    /\ calls = 0
    /\ source \in ScanSources
    /\ chunk = Chunk_EMPTY
    /\ runtime = Runtime_new
    /\ mem = Mem_new
    /\ output = <<>>
    /\ reported = 0
    /\ scanner \in {[Scanner_new(source) EXCEPT !.beyond = b] :
                        b \in BeyondBytes}
    /\ token = NoToken
    /\ compiling = Compiling_new
    /\ peeking = Peeking_new
    /\ process = Process_new(<<>>)

\* The scanner and the token after a call of Scanner::next that returned t.
Scanned(t) ==
    /\ scanner' = t.sc
    /\ token' = t.tok

\* The condition of the loop of the scanner test: the last token returned
\* is not End.
ScanEnabled ==
    token.token_type # "End"

\* One iteration of the loop of the scanner test: a call of next, until the
\* End token is returned.
Scan ==
    /\ ScanEnabled
    /\ Scanned(Scanner_next(scanner))
    /\ UNCHANGED <<pc, result, calls, source, chunk, runtime, mem, output,
                   reported, compiling, peeking, process>>

ScanNext == Scan

ScanSpec == ScanInit /\ [][ScanNext]_vars

(***************************************************************************)
(* The operations the parser makes on the chunk it compiles, on their own: *)
(* up to MaxOps of them in any order from an empty chunk, and one on a     *)
(* chunk that holds a long block.                                          *)
(***************************************************************************)
\* u16::MAX, the largest distance patch_jump and jump_back accept.
U16Max == 65535

\* The sizes in bytes of the code of a short block.
BodySizes == {2, 3}

\* The sizes of a long block: those that put the jump over a block that
\* follows an emit_jump, and the jump back from the end of a block to its
\* start, at U16Max and one past it.
LongBodySizes == {U16Max - 3, U16Max - 2, U16Max, U16Max + 1}

\* The code of a block of n bytes: statements null; (Null, Pop), after a
\* first statement -null; (Null, Negate, Pop) when n is odd.
BodyCode(n) ==
    [i \in 1..n |->
        IF n % 2 = 0
        THEN (IF i % 2 = 1 THEN OpNull ELSE OpPop)
        ELSE (IF i = 2 THEN OpNegate
              ELSE IF i = 1 \/ i % 2 = 0 THEN OpNull ELSE OpPop)]

\* The parser after the statements of a block of n bytes: n calls of
\* emit_byte.
emit_body(p, n) ==
    [p EXCEPT !.compiling_chunk.code = @ \o BodyCode(n),
              !.compiling_chunk.lines = @ \o [i \in 1..n |-> p.previous.line]]

\* The indices push_constant is given, around the limits of one, two and
\* three bytes.
PushIds == {0, 255, 256, 65535, 65536, 16777215}

\* The opcode pairs push_constant is called with.
PushOpcodes == {<<OpConstant, OpLongConstant>>, <<OpGetLocal, OpGetLongLocal>>}

\* A parser that has emitted a JumpIfFalse and a block of n bytes after it.
LongIf(n, j) ==
    [p |-> emit_body(j.p, n), jumps |-> {j.r}, loops |-> {},
     ops |-> MaxOps - 1, last |-> [op |-> "body", arg |-> n]]

\* A parser that has emitted a block of n bytes from the start of a loop.
LongLoop(n) ==
    [p |-> emit_body(Compiling_new.p, n), jumps |-> {}, loops |-> {0},
     ops |-> MaxOps - 1, last |-> [op |-> "body", arg |-> n]]

LongCompilings ==
    {LongIf(n, emit_jump(Compiling_new.p, OpJumpIfFalse)) : n \in LongBodySizes}
        \cup {LongLoop(n) : n \in LongBodySizes}

\* The state after an operation that left the parser as p.
Emitted(p, op, arg, jumps, loops) ==
    /\ compiling' = [p |-> p, jumps |-> jumps, loops |-> loops,
                     ops |-> compiling.ops + 1,
                     last |-> [op |-> op, arg |-> arg]]
    /\ UNCHANGED <<pc, result, calls, source, chunk, runtime, mem, output,
                   reported, scanner, token, peeking, process>>

\* emit_byte: one opcode.
EmitByte ==
    /\ compiling.ops < MaxOps
    /\ Emitted(emit_byte(compiling.p, OpPop), "emit_byte", OpPop,
               compiling.jumps, compiling.loops)

\* Chunk::push_constant on the chunk being compiled, at the line of the
\* previous token.
PushConstant(id, ops) ==
    /\ compiling.ops < MaxOps
    /\ Emitted([compiling.p EXCEPT !.compiling_chunk =
                    push_constant(@, id, compiling.p.previous.line,
                                  ops[1], ops[2])],
               "push_constant", id, compiling.jumps, compiling.loops)

\* The statements of a short block.
EmitBody(n) ==
    /\ compiling.ops < MaxOps
    /\ Emitted(emit_body(compiling.p, n), "body", n,
               compiling.jumps, compiling.loops)

\* emit_jump: the offset it returns is kept for patch_jump.
EmitJumped(j) ==
    Emitted(j.p, "emit_jump", j.r, compiling.jumps \cup {j.r},
            compiling.loops)

EmitJump(opcode) ==
    /\ compiling.ops < MaxOps
    /\ EmitJumped(emit_jump(compiling.p, opcode))

\* patch_jump on an offset emit_jump returned.
PatchJump(start) ==
    /\ compiling.ops < MaxOps
    /\ Emitted(patch_jump(compiling.p, start), "patch_jump", start,
               compiling.jumps \ {start}, compiling.loops)

\* The start of a while statement: the length of the chunk is kept as the
\* loop start.
BeginLoop ==
    /\ compiling.ops < MaxOps
    /\ Emitted(compiling.p, "loop_start",
               Chunk_len(compiling.p.compiling_chunk), compiling.jumps,
               compiling.loops \cup {Chunk_len(compiling.p.compiling_chunk)})

\* jump_back to a loop start.
JumpBack(to) ==
    /\ compiling.ops < MaxOps
    /\ Emitted(jump_back(compiling.p, to), "jump_back", to,
               compiling.jumps, compiling.loops \ {to})

EmitInit ==
    /\ pc = "idle"
    /\ result = "none"
    /\ calls = 0
    /\ source = <<>>
    /\ chunk = Chunk_EMPTY
    /\ runtime = Runtime_new
    /\ mem = Mem_new
    /\ output = <<>>
    /\ reported = 0
    /\ scanner = Scanner_new(<<>>)
    /\ token = NoToken
    /\ compiling \in {Compiling_new} \cup LongCompilings
    /\ peeking = Peeking_new
    /\ process = Process_new(<<>>)

EmitNext ==
    \/ EmitByte
    \/ \E id \in PushIds, ops \in PushOpcodes : PushConstant(id, ops)
    \/ \E n \in BodySizes : EmitBody(n)
    \/ \E opcode \in {OpJump, OpJumpIfFalse} : EmitJump(opcode)
    \/ \E start \in compiling.jumps : PatchJump(start)
    \/ BeginLoop
    \/ \E to \in compiling.loops : JumpBack(to)

EmitSpec == EmitInit /\ [][EmitNext]_vars

(***************************************************************************)
(* The Peekable on its own: any MaxPeeks calls of next, peek1 and peek2 in *)
(* any order, over the characters of a source.                             *)
(***************************************************************************)
\* Sources of no to four characters, no character twice.
PeekSources ==
    {<<>>, <<"a">>, <<"a", "b">>, <<"a", "b", "c">>, <<"a", "b", "c", "d">>}

PeekInit ==
    /\ pc = "idle"
    /\ result = "none"
    /\ calls = 0
    /\ source \in PeekSources
    /\ chunk = Chunk_EMPTY
    /\ runtime = Runtime_new
    /\ mem = Mem_new
    /\ output = <<>>
    /\ reported = 0
    /\ scanner = Scanner_new(<<>>)
    /\ token = NoToken
    /\ compiling = Compiling_new
    /\ peeking = Peeking_new
    /\ process = Process_new(<<>>)

\* The state after a call op on the Peekable that returned n.r and left
\* the Peekable as n.pk.
Peeked(op, n, taken) ==
    /\ peeking' = [pk |-> n.pk, taken |-> taken,
                   last |-> [op |-> op, r |-> n.r],
                   ops |-> peeking.ops + 1]
    /\ UNCHANGED <<pc, result, calls, source, chunk, runtime, mem, output,
                   reported, scanner, token, compiling, process>>

PeekNexted(n) == Peeked("next", n, Append(peeking.taken, n.r))

PeekNext ==
    /\ peeking.ops < MaxPeeks
    /\ PeekNexted(Peekable_next(source, peeking.pk))

Peek1 ==
    /\ peeking.ops < MaxPeeks
    /\ Peeked("peek1", Peekable_peek1(source, peeking.pk), peeking.taken)

Peek2 ==
    /\ peeking.ops < MaxPeeks
    /\ Peeked("peek2", Peekable_peek2(source, peeking.pk), peeking.taken)

PeekStep == PeekNext \/ Peek1 \/ Peek2

PeekSpec == PeekInit /\ [][PeekStep]_vars

(***************************************************************************)
(* main.rs: main, on the arguments of the process.                         *)
(***************************************************************************)
\* The names the program is started under: by cargo run from the target
\* folder, and otherwise.
ProgramNames ==
    {<<"t", "a", "r", "g", "e", "t", "/", "i">>,
     <<"t", "a", "r", "g", "e", "t", "s">>,
     <<".", "/", "t", "a", "r", "g", "e", "t", "/", "i">>,
     <<"i">>,
     <<"/", "b", "i", "n", "/", "i">>,
     <<"t", "a", "r">>}

\* The arguments given after the name.
Arguments ==
    {<<"a">>, <<"b">>, <<"t", "a", "r", "g", "e", "t", "/", "a">>}

\* At most this many arguments follow the name.
MaxArgs == 3

ArgumentLists == UNION {[1..n -> Arguments] : n \in 0..MaxArgs}

\* str::starts_with.
starts_with(text, prefix) ==
    /\ Len(text) >= Len(prefix)
    /\ SubSeq(text, 1, Len(prefix)) = prefix

\* Iterator::next on the arguments yet to be taken: the item, or NoArg.
NoArg == <<"\n">>

args_next(args) ==
    IF args = <<>> THEN [r |-> NoArg, args |-> <<>>]
    ELSE [r |-> Head(args), args |-> Tail(args)]

\* main, after the first argument has been taken as path: what it does
\* with the arguments.
main_path(first) ==
    LET run(path, rest) ==
            IF rest.r # NoArg
            THEN [kind |-> "exit", code |-> 66]
            ELSE [kind |-> "run_file", path |-> path]
        chosen(path, args) ==
            IF path # NoArg
            THEN run(path, args_next(args))
            ELSE [kind |-> "repl"]
        skipped(second) == chosen(second.r, second.args)
    IN  IF first.r # NoArg
           /\ starts_with(first.r, <<"t", "a", "r", "g", "e", "t">>)
        THEN skipped(args_next(first.args))
        ELSE chosen(first.r, first.args)

main(argv) == main_path(args_next(argv))

MainInit ==
    /\ pc = "idle"
    /\ result = "none"
    /\ calls = 0
    /\ source = <<>>
    /\ chunk = Chunk_EMPTY
    /\ runtime = Runtime_new
    /\ mem = Mem_new
    /\ output = <<>>
    /\ reported = 0
    /\ scanner = Scanner_new(<<>>)
    /\ token = NoToken
    /\ compiling = Compiling_new
    /\ peeking = Peeking_new
    /\ process \in {Process_new(<<name>> \o list) :
                        name \in ProgramNames, list \in ArgumentLists}

\* main, up to the call of repl or run_file or the exit.
Main ==
    /\ process.outcome.kind = "none"
    /\ process' = [process EXCEPT !.outcome = main(process.argv)]
    /\ UNCHANGED <<pc, result, calls, source, chunk, runtime, mem, output,
                   reported, scanner, token, compiling, peeking>>

MainSpec == MainInit /\ [][Main]_vars

(***************************************************************************)
(* Parser::compile, one call of declaration at a time, beside a Scanner    *)
(* over the same source, one call of next at a time.  The sources hold     *)
(* unclosed blocks, groupings, strings and comments, characters the        *)
(* scanner rejects and statements that put the parser in panic mode.       *)
(***************************************************************************)
CompileSources ==
    {
     \* {1;
     <<"{", "1", ";">>,
     \* (1
     <<"(", "1">>,
     \* 1@2;
     <<"1", "@", "2", ";">>,
     \* 1 1;2;
     <<"1", " ", "1", ";", "2", ";">>,
     \* 1 1 print(2);
     <<"1", " ", "1", " ", "p", "r", "i", "n", "t", "(", "2", ")", ";">>,
     \* "a
     <<"\"", "a">>,
     \* /*c
     <<"/", "*", "c">>,
     \* }
     <<"}">>,
     \* ;
     <<";">>,
     \* let
     <<"l", "e", "t">>,
     \* if true{
     <<"i", "f", " ", "t", "r", "u", "e", "{">>,
     \* print(1);
     <<"p", "r", "i", "n", "t", "(", "1", ")", ";">>,
     \* (nothing)
     <<>>,
     \* {{(
     <<"{", "{", "(">>,
     \* @@
     <<"@", "@">>,
     \* if
     <<"i", "f">>,
     \* print print
     <<"p", "r", "i", "n", "t", " ", "p", "r", "i", "n", "t">>,
     \* else 1
     <<"e", "l", "s", "e", " ", "1">>,
     \* let a=;{
     <<"l", "e", "t", " ", "a", "=", ";", "{">>}

\* Parser::new and the first advance of compile.
Compile_new(src) ==
    [p |-> Parser_advance(Parser_new(src, Chunk_EMPTY, Mem_new)),
     jumps |-> {},
     loops |-> {},
     ops |-> 0,
     last |-> [op |-> "advance", arg |-> 0]]

CompileInit ==
    /\ pc = "idle"
    /\ result = "none"
    /\ calls = 0
    /\ source \in CompileSources
    /\ chunk = Chunk_EMPTY
    /\ runtime = Runtime_new
    /\ mem = Mem_new
    /\ output = <<>>
    /\ reported = 0
    /\ scanner = Scanner_new(source)
    /\ token = NoToken
    /\ compiling = Compile_new(source)
    /\ peeking = Peeking_new
    /\ process = Process_new(<<>>)

\* The condition of the loop of compile: the current token is not End.
DeclareEnabled ==
    /\ compiling.last.op # "emit_return"
    /\ ~Parser_at_end(compiling.p)

\* One iteration of the loop of compile: a declaration, while the current
\* token is not End.
Declare ==
    /\ DeclareEnabled
    /\ Emitted(declaration(compiling.p), "declaration", 0,
               compiling.jumps, compiling.loops)

\* The loop of compile has been left and emit_return not yet called.
EmitReturnEnabled ==
    /\ compiling.last.op # "emit_return"
    /\ Parser_at_end(compiling.p)

\* The end of compile, once the current token is End.
EmitReturn ==
    /\ EmitReturnEnabled
    /\ Emitted(emit_return(compiling.p), "emit_return", 0,
               compiling.jumps, compiling.loops)

CompileNext ==
    \/ Scan
    \/ Declare
    \/ EmitReturn

\* Both loops run on their own thread of control with nothing to wait for:
\* an iteration that can be made is made.  This is weak fairness of each
\* action, written out ([]<>~ENABLED <<A>>_vars \/ []<><<A>>_vars) with the
\* condition of the loop as the enabling condition of its iteration.
CompileSpec ==
    /\ CompileInit
    /\ [][CompileNext]_vars
    /\ ([]<>(~ScanEnabled) \/ []<><<Scan>>_vars)
    /\ ([]<>(~DeclareEnabled) \/ []<><<Declare>>_vars)
    /\ ([]<>(~EmitReturnEnabled) \/ []<><<EmitReturn>>_vars)

(***************************************************************************)
(* The REPL on programs that compare two integers with >= and <=.          *)
(***************************************************************************)
\* The integers compared.
CompareNumbers == {-1, 0, 1, 2}

\* The literal of an integer of one digit, with the minus sign of a
\* negative one.
NumberText(n) ==
    LET digit(m) == <<<<"0">>, <<"1">>, <<"2">>, <<"3">>, <<"4">>, <<"5">>,
                      <<"6">>, <<"7">>, <<"8">>, <<"9">>>>[m + 1]
    IN  IF n < 0 THEN <<"-">> \o digit(0 - n) ELSE digit(n)

\* print(a>=b);print(a<=b);
CompareSource(a, b) ==
    <<"p", "r", "i", "n", "t", "(">> \o NumberText(a) \o <<">", "=">>
        \o NumberText(b)
        \o <<")", ";", "p", "r", "i", "n", "t", "(">> \o NumberText(a)
        \o <<"<", "=">> \o NumberText(b) \o <<")", ";">>

ComparePrograms ==
    {CompareSource(a, b) : a \in CompareNumbers, b \in CompareNumbers}

CompareNext ==
    \/ \E src \in ComparePrograms : Interpret(src)
    \/ Step

CompareSpec == Init /\ [][CompareNext]_vars

(***************************************************************************)
(* vm.rs: Runtime::interpret on a chunk that was not compiled from a       *)
(* source: Runtime::new(&chunk) and the dispatch loop, on code that holds  *)
(* a byte that is no opcode.                                               *)
(***************************************************************************)
\* Bytes that no variant of Opcode is numbered with.
UnknownBytes == {31, 32, 128, 255}

\* The code before the byte: nothing, a value pushed, and a global g defined
\* as the concatenation of two strings with two values pushed after it.
BytePrefixes ==
    {<<>>,
     <<OpTrue>>,
     <<OpConstant, 0, OpConstant, 0, OpAdd, OpDefineGlobalVariable, 0,
       OpNull, OpFalse>>}

\* The code after it.
ByteSuffixes ==
    {<<OpReturn>>, <<OpPop, OpReturn>>, <<OpNot, OpReturn>>, <<>>}
        \cup {<<u, OpReturn>> : u \in UnknownBytes}

\* A chunk with the string g as its constant 0 and the given code, every
\* byte on line 1.
ByteChunk(made, code) ==
    [chunk |-> [made.ch EXCEPT !.code = code,
                               !.lines = [i \in 1..Len(code) |-> Line_new(1, 1)]],
     mem |-> made.mem]

ByteChunks ==
    {ByteChunk(make_string(Chunk_EMPTY, Mem_new, <<"g">>),
               pre \o <<u>> \o post) :
        pre \in BytePrefixes, u \in UnknownBytes, post \in ByteSuffixes}

\* Runtime::new(&chunk), at the first iteration of the dispatch loop.
ByteInit ==
    /\ pc = "running"
    /\ result = "none"
    /\ calls = 1
    /\ source = <<>>
    /\ \E c \in ByteChunks :
           /\ chunk = c.chunk
           /\ mem = c.mem
    /\ runtime = [Runtime_new EXCEPT !.chunk = "local"]
    /\ output = <<>>
    /\ reported = 0
    /\ scanner = Scanner_new(<<>>)
    /\ token = NoToken
    /\ compiling = Compiling_new
    /\ peeking = Peeking_new
    /\ process = Process_new(<<>>)

ByteSpec == ByteInit /\ [][Step]_vars

(***************************************************************************)
(* compiler.rs: the scopes of the parser.  The operations are the ones the *)
(* statements make on the compiler's depth and locals: begin_scope and     *)
(* end_scope around a block, and a let declaration.                        *)
(***************************************************************************)
\* The names declared.
LocalNames == {<<"a">>, <<"b">>}

IdentifierToken(name) ==
    [line |-> Line_new(1, 1), token_type |-> "Identifier", contents |-> name]

\* variable_declaration of `let name;` once the name is the previous token:
\* parse_variable makes the constant of a global, Null is emitted for the
\* missing initialiser, and the variable is defined or declared.
let_declared(p, ident) ==
    LET made(c) ==
            define_variable(
                emit_byte([p EXCEPT !.compiling_chunk = c.ch, !.mem = c.mem],
                          OpNull),
                c.id, ident.line)
    IN  IF p.compiler.depth > 0
        THEN declare_variable(emit_byte(p, OpNull), ident)
        ELSE made(make_string(p.compiling_chunk, p.mem, ident.contents))

ScopeInit ==
    /\ pc = "idle"
    /\ result = "none"
    /\ calls = 0
    /\ source = <<>>
    /\ chunk = Chunk_EMPTY
    /\ runtime = Runtime_new
    /\ mem = Mem_new
    /\ output = <<>>
    /\ reported = 0
    /\ scanner = Scanner_new(<<>>)
    /\ token = NoToken
    /\ compiling = Compiling_new
    /\ peeking = Peeking_new
    /\ process = Process_new(<<>>)

\* begin_scope, at the '{' of a block.
BeginScope ==
    /\ compiling.ops < MaxScopeOps
    /\ compiling.p.compiler.depth < MaxDepth
    /\ Emitted(begin_scope(compiling.p), "begin_scope", 0,
               compiling.jumps, compiling.loops)

\* A let declaration, at any depth.
LetDeclared(name) ==
    /\ compiling.ops < MaxScopeOps
    /\ Emitted(let_declared([compiling.p EXCEPT
                                 !.previous = IdentifierToken(name)],
                            IdentifierToken(name)),
               "let", 0, compiling.jumps, compiling.loops)

\* end_scope, after the block that begin_scope opened.
EndScope ==
    /\ compiling.ops < MaxScopeOps
    /\ compiling.p.compiler.depth > 0
    /\ Emitted(end_scope(compiling.p), "end_scope", 0,
               compiling.jumps, compiling.loops)

ScopeNext ==
    \/ BeginScope
    \/ \E name \in LocalNames : LetDeclared(name)
    \/ EndScope

ScopeSpec == ScopeInit /\ [][ScopeNext]_vars

(***************************************************************************)
(* Properties.  Values read off the state by the properties below.         *)
(***************************************************************************)
\* The values below the stack_top pointer, bottom first.
LiveStack == [i \in 1..runtime.stack_top |-> ReadSlot(runtime.stack, i - 1)]

\* The opcode the next iteration of the dispatch loop reads.
NextOpcode == Opcode_from(chunk.code[runtime.ip + 1])

\* Whether the next iteration of the dispatch loop reads an instruction.
AtInstruction == pc = "running" /\ runtime.ip < Chunk_len(chunk)

\* The call ended by the top-level Return with no diagnostic written.
ReturnedClean == pc = "idle" /\ result = "Ok" /\ reported = 0

IsString(v) == v.t = "Obj" /\ Live(mem, v.ref) /\ mem.heap[v.ref].ty = "Str"

\* C3: within one run, two string values with equal contents are the same
\* ObjRef, here for any two string values on the stack together.
C3_EqualStringsShareObjRef ==
    pc = "running" =>
        \A i, j \in 1..runtime.stack_top :
            (/\ IsString(LiveStack[i])
             /\ IsString(LiveStack[j])
             /\ as_ref(mem, LiveStack[i].ref) = as_ref(mem, LiveStack[j].ref))
                => LiveStack[i].ref = LiveStack[j].ref

\* The values the Runtime can read: the slots below stack_top and the
\* values bound to globals.
Readable ==
    {LiveStack[i] : i \in 1..runtime.stack_top}
        \cup {runtime.globals[k] : k \in DOMAIN runtime.globals}

\* C4: between interpret calls, no value the Runtime can read is an ObjRef
\* to an object that has been freed.
C4_NoReadableFreedObject ==
    pc = "idle" => \A v \in Readable : v.t = "Obj" => Live(mem, v.ref)

\* The step of an interpret call whose source compiled: Runtime::reset has
\* run and the dispatch loop is about to read the first instruction.
ResetStep == pc = "idle" /\ pc' = "running"

\* C5: reset empties the stack, frees every object of the Runtime's object
\* vector, empties the intern set and leaves globals unchanged; a global
\* stays bound to the same value (for a string, the same characters)
\* through every later step and call but the execution of an assignment
\* to a global.
C5_ResetKeepsGlobals ==
    [][/\ ResetStep =>
            /\ runtime'.stack_top = 0
            /\ runtime'.objects = <<>>
            /\ \A i \in 1..Len(runtime.objects) :
                   ~Live(mem', runtime.objects[i])
            /\ runtime'.strings = {}
            /\ runtime'.globals = runtime.globals
       /\ \A k \in DOMAIN runtime.globals :
            \/ AtInstruction /\ NextOpcode \in {OpSetGlobal, OpSetLongGlobal}
            \/ /\ k \in DOMAIN runtime'.globals
               /\ runtime'.globals[k] = runtime.globals[k]
               /\ IsString(runtime.globals[k]) =>
                      /\ Live(mem', runtime.globals[k].ref)
                      /\ as_ref(mem', runtime.globals[k].ref)
                             = as_ref(mem, runtime.globals[k].ref)]_vars

\* The opcodes that pop one value, and those that pop two.
PopsOne ==
    {OpNegate, OpNot, OpPrint, OpPop, OpDefineGlobalVariable,
     OpDefineLongGlobalVariable}

PopsTwo ==
    {OpAdd, OpSubtract, OpMultiply, OpDivide, OpModolo, OpEqual, OpGreater,
     OpLess}

\* The next instruction pops from an empty stack.
Underflows ==
    /\ AtInstruction
    /\ \/ NextOpcode \in PopsOne /\ runtime.stack_top = 0
       \/ NextOpcode \in PopsTwo /\ runtime.stack_top < 2

\* C6: an instruction that pops from an empty stack, Pop and Print
\* included, ends the dispatch loop: interpret returns the runtime error
\* and no later instruction is executed.
C6_UnderflowStopsDispatch ==
    [][Underflows => pc' = "idle" /\ result' = "InterpretError"]_vars

\* C7: no push writes at or beyond the stack's allocated storage, and a
\* program that needs more than StackCapacity values at once runs on.
C7_PushWithinStorage ==
    /\ Len(runtime.stack) <= StackCapacity
    /\ runtime.stack_top <= StackCapacity
    /\ result # "crash"

\* The operands the next instruction pops: b the top of the stack, a the
\* value below it.
OperandB == LiveStack[runtime.stack_top]
OperandA == LiveStack[runtime.stack_top - 1]

\* The next instruction is an arithmetic, comparison or logical operator
\* whose operands are on the stack and are of the wrong type.
TypeMismatch ==
    /\ AtInstruction
    /\ \/ /\ NextOpcode = OpNegate
          /\ runtime.stack_top >= 1
          /\ OperandB.t # "Number"
       \/ /\ NextOpcode = OpNot
          /\ runtime.stack_top >= 1
          /\ OperandB.t # "Bool"
       \/ /\ NextOpcode \in {OpSubtract, OpMultiply, OpDivide, OpModolo,
                             OpGreater, OpLess}
          /\ runtime.stack_top >= 2
          /\ ~(OperandA.t = "Number" /\ OperandB.t = "Number")
       \/ /\ NextOpcode = OpAdd
          /\ runtime.stack_top >= 2
          /\ ~(OperandA.t = "Number" /\ OperandB.t = "Number")
          /\ ~(IsString(OperandA) /\ IsString(OperandB))

\* C9: an operator that finds an operand of the wrong type reports the
\* error, empties the stack and the dispatch loop goes on with the next
\* instruction: interpret does not return at the mismatch and nothing is
\* printed by it; when the program then returns Ok the stack is empty.
C9_MismatchResetsAndContinues ==
    [][/\ TypeMismatch =>
            /\ pc' = "running"
            /\ result' = result
            /\ reported' = reported + 1
            /\ runtime'.stack_top = 0
            /\ runtime'.ip = runtime.ip + 1
            /\ runtime'.globals = runtime.globals
            /\ output' = output
       /\ (pc = "running" /\ pc' = "idle" /\ result' = "Ok") =>
            runtime'.stack_top = 0]_vars

\* print(1 + "x"); has returned Ok after the mismatch in Add, with the
\* stack empty: two diagnostics, the mismatch and the underflow in Print.
C9_Witness ==
    /\ source = SrcAddMismatch
    /\ pc = "idle"
    /\ result = "Ok"
    /\ reported = 2
    /\ runtime.stack_top = 0

\* The step of an interpret call during whose compilation the scanner or
\* the parser reported an error.
CompileErrorStep == pc = "idle" /\ calls' = calls + 1 /\ reported' > 0

\* C8: when the scanner or parser reports an error, interpret returns
\* CompileError with the Runtime as it was before the call (globals,
\* stack, object vector and its objects, intern set), and the call prints
\* nothing.
C8_CompileErrorLeavesRuntime ==
    [][CompileErrorStep =>
          /\ pc' = "idle"
          /\ result' = "CompileError"
          /\ runtime' = runtime
          /\ \A i \in 1..Len(runtime.objects) :
                /\ Live(mem', runtime.objects[i])
                /\ mem'.heap[runtime.objects[i]] = mem.heap[runtime.objects[i]]
          /\ output' = output]_vars

\* A second call has returned CompileError on a Runtime that an earlier
\* call left with a global, an object and an interned string.
C8_Witness ==
    /\ calls = 2
    /\ pc = "idle"
    /\ result = "CompileError"
    /\ reported > 0
    /\ <<"s">> \in DOMAIN runtime.globals
    /\ Len(runtime.objects) = 1
    /\ runtime.strings = {runtime.objects[1]}
    /\ Live(mem, runtime.objects[1])

\* The next instruction is a DefineGlobal.
DefinesGlobal ==
    /\ AtInstruction
    /\ NextOpcode \in {OpDefineGlobalVariable, OpDefineLongGlobalVariable}

\* The operand of the DefineGlobal: one byte, or three for the long form.
DefineOperand ==
    IF NextOpcode = OpDefineGlobalVariable
    THEN chunk.code[runtime.ip + 2]
    ELSE chunk.code[runtime.ip + 2] * 65536
             + chunk.code[runtime.ip + 3] * 256 + chunk.code[runtime.ip + 4]

\* The name the DefineGlobal defines: the string constant at its operand.
DefinedName == as_ref(mem, Chunk_constant(chunk, DefineOperand).ref)

\* C10: DefineGlobal on a name that is not in globals pops one value and
\* binds the name to it, the other bindings unchanged; on a name that is
\* in globals it leaves globals as it is and interpret returns the runtime
\* error.
C10_DefineGlobalOnce ==
    [][(DefinesGlobal /\ runtime.stack_top >= 1) =>
          IF DefinedName \notin DOMAIN runtime.globals
          THEN /\ pc' = "running"
               /\ runtime'.stack_top = runtime.stack_top - 1
               /\ DOMAIN runtime'.globals =
                      DOMAIN runtime.globals \cup {DefinedName}
               /\ runtime'.globals[DefinedName] = OperandB
               /\ \A k \in DOMAIN runtime.globals :
                      runtime'.globals[k] = runtime.globals[k]
          ELSE /\ pc' = "idle"
               /\ result' = "InterpretError"
               /\ runtime'.globals = runtime.globals]_vars

\* let a=1;let a=2; given twice: the first call bound a to 1 and ended at
\* its second definition; the second call has ended at its first
\* definition of a, which is still bound to 1.
C10_Witness ==
    /\ calls = 2
    /\ source = SrcLetTwice
    /\ pc = "idle"
    /\ result = "InterpretError"
    /\ runtime.ip = 4
    /\ DOMAIN runtime.globals = {<<"a">>}
    /\ runtime.globals[<<"a">>] = Number(1, 1)

\* The call on the given source has returned.
Returned(src) == pc = "idle" /\ source = src

\* C11: a read of a global that is not defined makes interpret return
\* the runtime error, here for print(y); with y never defined.
C11_UndefinedGlobalIsRuntimeError ==
    Returned(SrcUnknownVariable) =>
        /\ result = "InterpretError"
        /\ <<"y">> \notin DOMAIN runtime.globals


\* C12: an assignment is an expression whose value is the assigned value:
\* let a=1;let b=2;a=b=3; assigns 3 to both globals and leaves the stack
\* at the height it had before the statement.
C12_AssignmentIsExpression ==
    Returned(SrcAssignment) =>
        /\ result = "Ok"
        /\ <<"a">> \in DOMAIN runtime.globals
        /\ <<"b">> \in DOMAIN runtime.globals
        /\ runtime.globals[<<"a">>] = Number(3, 1)
        /\ runtime.globals[<<"b">>] = Number(3, 1)
        /\ runtime.stack_top = 0


\* C13: a while statement compiles and runs: while false{} evaluates its
\* condition once, executes no body and goes on to the end of the program
\* with nothing reported and the stack as it was.
C13_WhileCompilesAndRuns ==
    Returned(SrcWhile) =>
        /\ result = "Ok"
        /\ reported = 0
        /\ runtime.stack_top = 0


\* What Print writes for the number n.
PrintedNumber(n) == [ok |-> TRUE, val |-> Number(n, 1), str |-> <<>>]

\* The running call has printed exactly the numbers in ns: they are the
\* last values written, and all of them when the call is the first.
CallPrinted(ns) ==
    /\ Len(output) >= Len(ns)
    /\ calls = 1 => Len(output) = Len(ns)
    /\ \A i \in 1..Len(ns) :
          output[Len(output) - Len(ns) + i] = PrintedNumber(ns[i])

\* C14: of if c { A } else { B } exactly one arm executes, A when c is
\* true and B when c is false; with no else arm a false c executes nothing;
\* the statement after the if executes with the stack at the height it had
\* before the if.  Each arm of the programs prints a number of its own.
C14_IfExecutesOneArm ==
    /\ Returned(SrcIfElse) =>
          /\ result = "Ok"
          /\ reported = 0
          /\ CallPrinted(<<1, 3>>)
          /\ runtime.stack_top = 0
    /\ Returned(SrcIfFalse) =>
          /\ result = "Ok"
          /\ reported = 0
          /\ CallPrinted(<<2, 4>>)
          /\ runtime.stack_top = 0
    /\ (pc = "running" /\ source = SrcLocalAfterIf) =>
          \A i \in 1..Len(chunk.decls) :
              chunk.decls[i].offset = runtime.ip =>
                  runtime.stack_top = chunk.decls[i].slot + 1
    /\ Returned(SrcLocalAfterIf) => result = "Ok" /\ reported = 0

\* The program with two false conditions has returned from a first call,
\* having printed in the else arm and after the second if only.
C14_Witness ==
    /\ calls = 1
    /\ Returned(SrcIfFalse)
    /\ result = "Ok"
    /\ output = <<PrintedNumber(2), PrintedNumber(4)>>
    /\ runtime.stack_top = 0


\* C15: and and or are infix operators that short-circuit and leave one
\* value on the stack: print(true and false);print(true or false); prints
\* false, then true.
C15_LogicalOperatorsShortCircuit ==
    Returned(SrcAndOr) =>
        /\ result = "Ok"
        /\ reported = 0
        /\ Len(output) >= 2
        /\ output[Len(output) - 1].val = Bool(FALSE)
        /\ output[Len(output)].val = Bool(TRUE)
        /\ runtime.stack_top = 0


\* C16: the bytecode of an arithmetic expression over number literals
\* evaluates it with unary minus binding tighter than * and /, those
\* tighter than + and -, binary operators left-associative and the left
\* operand first: 1+2*3 is 7, 8-3-2 is 3, -2+3 is 1 and 8/4/2 is 1.
C16_ArithmeticPrecedence ==
    Returned(SrcArithmetic) =>
        /\ result = "Ok"
        /\ reported = 0
        /\ CallPrinted(<<7, 3, 1, 1>>)

\* The arithmetic program has returned from a first call with its four
\* values printed.
C16_Witness ==
    /\ calls = 1
    /\ Returned(SrcArithmetic)
    /\ result = "Ok"
    /\ output = <<PrintedNumber(7), PrintedNumber(3), PrintedNumber(1),
                  PrintedNumber(1)>>


\* C17: == binds strictly looser than <, so print(true==1<2); compares
\* true with the result of 1<2 and prints true with no type error.
C17_EqualityBelowComparison ==
    Returned(SrcEqualityComparison) =>
        /\ result = "Ok"
        /\ reported = 0
        /\ Len(output) >= 1
        /\ output[Len(output)].ok
        /\ output[Len(output)].val = Bool(TRUE)



\* C18: every binary operator is scanned, has an infix rule and compiles:
\* print(1%2);print(1!=2); compiles, runs and prints 1, then true.
C18_EveryBinaryOperatorCompiles ==
    Returned(SrcModuloNotEqual) =>
        /\ result = "Ok"
        /\ reported = 0
        /\ Len(output) >= 2
        /\ output[Len(output) - 1] = PrintedNumber(1)
        /\ output[Len(output)].val = Bool(TRUE)



\* C19: an identifier in an expression compiles and resolves to the most
\* recently declared local of that name in scope: the shadowing program
\* {let a=1;{let a=2;print(a);}print(a);} prints 2, then 1.
C19_IdentifierResolvesInnermost ==
    Returned(SrcShadowing) =>
        /\ result = "Ok"
        /\ reported = 0
        /\ CallPrinted(<<2, 1>>)



\* The kind the language gives a word: that of the keyword it spells, or
\* Identifier.
KeywordKind(w) ==
    CASE w = <<"a", "n", "d">> -> "And"
      [] w = <<"o", "r">> -> "Or"
      [] w = <<"i", "f">> -> "If"
      [] w = <<"e", "l", "s", "e">> -> "Else"
      [] w = <<"t", "r", "u", "e">> -> "True"
      [] w = <<"f", "a", "l", "s", "e">> -> "False"
      [] w = <<"f", "o", "r">> -> "For"
      [] w = <<"w", "h", "i", "l", "e">> -> "While"
      [] w = <<"f", "n">> -> "Fn"
      [] w = <<"r", "e", "t", "u", "r", "n">> -> "Return"
      [] w = <<"l", "e", "t">> -> "Let"
      [] w = <<"n", "u", "l", "l">> -> "Null"
      [] w = <<"p", "r", "i", "n", "t">> -> "Print"
      [] OTHER -> "Identifier"

\* The token Scanner::next returned is a word.
WordToken ==
    /\ token.token_type \notin {"None", "Error", "End"}
    /\ token.contents \in ScanWords

\* C20: the token of an alphanumeric word has the keyword's kind exactly
\* when the whole word is one of and, or, if, else, true, false, for, while,
\* fn, return, let, null, print, and is an Identifier for every other word,
\* prefixes and extensions of keywords included.
C20_KeywordExactlyWholeWord ==
    WordToken => token.token_type = KeywordKind(token.contents)



\* The source starts with the characters of text.
StartsWith(text) ==
    /\ Len(source) >= Len(text)
    /\ SubSeq(source, 1, Len(text)) = text

\* The character of the source at offset i is not a digit (or the source
\* ends there).
NonDigitAt(i) == Len(source) <= i \/ source[i + 1] \notin Digits

\* The token Scanner::next returned starts at offset i of the source.
TokenAt(i) ==
    /\ token.token_type \notin {"None", "End"}
    /\ scanner.start = i

\* C21: a number token is the maximal run of digits optionally followed by
\* one '.' and at least one digit: 1.5 is one number token whatever follows
\* it, and in 1. followed by a non-digit the number token is 1 and the dot
\* is scanned as a Dot token of its own.
C21_NumberTokenIsMaximal ==
    /\ StartsWith(<<"1", ".", "5">>) /\ NonDigitAt(3) /\ TokenAt(0) =>
          /\ token.token_type = "NumberLiteral"
          /\ token.contents = <<"1", ".", "5">>
    /\ StartsWith(<<"1", ".">>) /\ NonDigitAt(2) /\ TokenAt(0) =>
          /\ token.token_type = "NumberLiteral"
          /\ token.contents = <<"1">>
    /\ StartsWith(<<"1", ".">>) /\ NonDigitAt(2) /\ TokenAt(1) =>
          token.token_type = "Dot"



\* C22: a number literal with underscores between its digits is one number
\* token and compiles without error to the constant without the
\* underscores: print(1_0); prints 10.
C22_UnderscoreInNumber ==
    Returned(SrcUnderscore) =>
        /\ result = "Ok"
        /\ reported = 0
        /\ CallPrinted(<<10>>)



\* The offsets at which a */ closes the block comment that opens the source.
Closings ==
    {i \in 2..(Len(source) - 2) : source[i + 1] = "*" /\ source[i + 2] = "/"}

OpensComment == StartsWith(<<"/", "*">>)

\* The source after the first closing of its opening comment.
AfterComment ==
    LET first == CHOOSE i \in Closings : \A j \in Closings : i <= j
    IN  SubSeq(source, first + 3, Len(source))

SameToken(t, u) ==
    /\ t.token_type = u.token_type
    /\ t.contents = u.contents

\* The source with a nested opening: /* /*n */ */
SrcNestedComment ==
    <<"/", "*", " ", "/", "*", "n", " ", "*", "/", " ", "*", "/">>

\* What the claim states of one call of Scanner::next.
BlockCommentStep ==
    /\ OpensComment /\ Closings # {} /\ token = NoToken =>
          SameToken(token', Scanner_next(Scanner_new(AfterComment)).tok)
    /\ OpensComment /\ Closings = {} /\ token = NoToken =>
          /\ token'.token_type = "Error"
          /\ token'.contents = "Unclosed multiline comment"
    /\ OpensComment /\ Closings = {} /\ token # NoToken =>
          token'.token_type = "End"
    /\ source = SrcNestedComment =>
          /\ token = NoToken => token'.token_type = "Star"
          /\ token.token_type = "Star" => token'.token_type = "Slash"
          /\ token.token_type = "Slash" => token'.token_type = "End"

\* C23: a block comment ends at the first */ after its opening and what
\* follows is scanned as ordinary tokens, so /* /*n */ */ yields Star, then
\* Slash; an unclosed block comment yields one error token "Unclosed
\* multiline comment", then End.
C23_BlockCommentEndsAtFirstClose == [][BlockCommentStep]_vars

\* The scanner has returned the Slash that follows the first closing of the
\* nested comment.
C23_Witness ==
    /\ source = SrcNestedComment
    /\ token.token_type = "Slash"
    /\ scanner.start = 11



\* The code of the chunk being compiled.
CompilingCode == compiling.p.compiling_chunk.code

\* The parser has rejected a jump: the error flag is set, which makes
\* compile return false, "Jump too big" is reported unless an earlier
\* error of the statement silenced the parser, and the code is as it was.
JumpRejected ==
    /\ compiling'.p.error
    /\ ~compiling.p.panic =>
          compiling'.p.diags = Append(compiling.p.diags, "Jump too big")
    /\ compiling'.p.compiling_chunk.code = CompilingCode

\* The parser flags and reports nothing new.
NoNewError ==
    /\ compiling'.p.error = compiling.p.error
    /\ compiling'.p.diags = compiling.p.diags

\* patch_jump(start) of the claim, for the distance jump.
PatchedAs(start, jump) ==
    IF jump <= 65535
    THEN /\ NoNewError
         /\ compiling'.p.compiling_chunk.code =
                [CompilingCode EXCEPT ![start + 1] = jump \div 256,
                                      ![start + 2] = jump % 256]
    ELSE JumpRejected

\* jump_back(to) of the claim, for the distance jump.
JumpedBackAs(jump) ==
    IF jump <= 65535
    THEN /\ NoNewError
         /\ compiling'.p.compiling_chunk.code =
                CompilingCode \o <<OpJumpBack, jump \div 256, jump % 256>>
    ELSE JumpRejected

JumpStep ==
    /\ compiling'.last.op = "patch_jump" =>
          PatchedAs(compiling'.last.arg,
                    Len(CompilingCode) - compiling'.last.arg - 2)
    /\ compiling'.last.op = "jump_back" =>
          JumpedBackAs(Len(CompilingCode) + 3 - compiling'.last.arg)

\* C24: patch_jump and jump_back accept exactly the distances 0 to 65535:
\* up to 65535 the two operand bytes hold the distance big-endian and no
\* error is flagged; from 65536 on "Jump too big" is reported, the error
\* flag makes compile return false and no operand is written.
C24_JumpDistanceLimit == [][JumpStep]_vars

\* patch_jump has written the distance 65535 over the operand of a jump
\* that is followed by 65535 bytes, without an error.
C24_Witness ==
    /\ compiling.last.op = "patch_jump"
    /\ Len(CompilingCode) = compiling.last.arg + 2 + 65535
    /\ CompilingCode[compiling.last.arg + 1] = 255
    /\ CompilingCode[compiling.last.arg + 2] = 255
    /\ ~compiling.p.error



\* The number of bytes of the instruction whose opcode is op: the opcode
\* and the operand the dispatch loop reads after it.
InstructionLen(op) ==
    CASE op \in {OpConstant, OpDefineGlobalVariable, OpGetGlobalVariable,
                 OpSetGlobal, OpGetLocal, OpSetLocal} -> 2
      [] op \in {OpLongConstant, OpDefineLongGlobalVariable,
                 OpGetLongGlobalVariable, OpSetLongGlobal, OpGetLongLocal,
                 OpSetLongLocal} -> 4
      [] op \in {OpJump, OpJumpIfFalse, OpJumpBack} -> 3
      [] OTHER -> 1

\* The offsets of the first bytes of the instructions of code, from the
\* offset i on.
RECURSIVE InstructionStarts(_, _)
InstructionStarts(code, i) ==
    IF i >= Len(code) THEN {}
    ELSE {i} \cup InstructionStarts(code, i + InstructionLen(code[i + 1]))

\* The distance encoded in the operand of the jump at offset i.
JumpDistance(code, i) == code[i + 2] * 256 + code[i + 3]

\* The offset the jump instruction at offset i goes to.
JumpDestination(code, i) ==
    IF code[i + 1] = OpJumpBack
    THEN i + 3 - JumpDistance(code, i)
    ELSE i + 3 + JumpDistance(code, i)

\* Every jump of code lands on one of the instruction starts.
JumpsLandOn(code, starts) ==
    \A i \in starts :
        code[i + 1] \in {OpJump, OpJumpIfFalse, OpJumpBack} =>
            JumpDestination(code, i) \in starts

\* C25: in the chunk of a successful compile every Jump, JumpIfFalse and
\* JumpBack goes to the first byte of an instruction inside the chunk.
C25_JumpsLandOnInstructions ==
    pc = "running" => JumpsLandOn(chunk.code, InstructionStarts(chunk.code, 0))

\* The chunk of the two if statements is running: it holds four jumps.
C25_Witness ==
    /\ pc = "running"
    /\ source = SrcTwoIfs
    /\ Cardinality({i \in InstructionStarts(chunk.code, 0) :
                       chunk.code[i + 1] \in {OpJump, OpJumpIfFalse}}) = 4



\* C26: whatever the earlier interpret calls on the Runtime did, a call
\* whose source compiles begins execution with an empty stack, an empty
\* object vector and intern set, and the instruction pointer at byte 0 of
\* the chunk that call compiled.
C26_CallBeginsReset ==
    [][ResetStep =>
          /\ runtime'.stack_top = 0
          /\ runtime'.objects = <<>>
          /\ runtime'.strings = {}
          /\ runtime'.ip = 0
          /\ runtime'.chunk = "local"
          /\ Chunk_len(chunk') > 0]_vars

\* A second call begins execution on a Runtime that holds a global and
\* whose earlier call allocated objects that have been freed since.
C26_Witness ==
    /\ calls = 2
    /\ pc = "running"
    /\ runtime.ip = 0
    /\ runtime.stack_top = 0
    /\ runtime.objects = <<>>
    /\ runtime.strings = {}
    /\ runtime.globals # <<>>
    /\ \E r \in 1..(mem.next - 1) : ~Live(mem, r)



\* The item the underlying iterator yields at its i-th call of next: the
\* i-th character of the source, None once it is exhausted.
Item(i) == IF i <= Len(source) THEN source[i] ELSE NoChar

\* C27: for any interleaving of next, peek1 and peek2 on a Peekable, next
\* returns the items of the underlying iterator in order, none skipped or
\* repeated; peek1 returns the item the next call of next will return and
\* peek2 the item the call after that will (None once exhausted).
C27_PeekableKeepsOrder ==
    /\ \A i \in 1..Len(peeking.taken) : peeking.taken[i] = Item(i)
    /\ peeking.last.op = "peek1" =>
          peeking.last.r = Item(Len(peeking.taken) + 1)
    /\ peeking.last.op = "peek2" =>
          peeking.last.r = Item(Len(peeking.taken) + 2)

\* After a call of next has returned the first item, peek2 has returned
\* the third with the second held back for the next call of next.
C27_Witness ==
    /\ source = <<"a", "b", "c">>
    /\ peeking.taken = <<"a">>
    /\ peeking.last = [op |-> "peek2", r |-> "c"]
    /\ peeking.pk.p1set
    /\ peeking.pk.p1 = "b"


(***************************************************************************)
(* The command line.                                                       *)
(***************************************************************************)
\* The arguments that follow the name the program was started under.
Given == Tail(process.argv)

\* C28: whatever name the program was started under, main enters the REPL
\* when no argument follows the name, reads and interprets the file named by
\* the argument when exactly one follows, and exits with code 66 when more
\* than one follows.
C28_ArgumentsChooseMode ==
    process.outcome.kind # "none" =>
        process.outcome =
            IF Len(Given) = 0 THEN [kind |-> "repl"]
            ELSE IF Len(Given) = 1
                 THEN [kind |-> "run_file", path |-> Given[1]]
                 ELSE [kind |-> "exit", code |-> 66]



(***************************************************************************)
(* Operands of one and of three bytes.                                     *)
(***************************************************************************)
\* The bytes an operation has appended to code.
Appended(code, code2) == SubSeq(code2, Len(code) + 1, Len(code2))

\* The operand the VM reads with its instruction pointer at offset at of
\* code: by read_byte after a short opcode, by read_bytes(3) after a long
\* one.
OperandRead(code, at, long) ==
    LET rt == [Runtime_new EXCEPT !.ip = at]
        ch == [Chunk_EMPTY EXCEPT !.code = code]
    IN  IF long THEN read_bytes(rt, ch, 3).r ELSE read_byte(rt, ch).r

\* push_constant has appended, for the index id, an opcode and the operand
\* in the form the claim gives, and the VM reads id back from it.
PushedAs(code, code2, id) ==
    /\ Len(code2) >= Len(code)
    /\ SubSeq(code2, 1, Len(code)) = code
    /\ IF id <= 255
       THEN /\ \E ops \in PushOpcodes : Appended(code, code2) = <<ops[1], id>>
            /\ OperandRead(code2, Len(code) + 1, FALSE) = id
       ELSE /\ \E ops \in PushOpcodes :
                   Appended(code, code2) =
                       <<ops[2], id \div 65536, (id \div 256) % 256, id % 256>>
            /\ OperandRead(code2, Len(code) + 1, TRUE) = id

PushStep ==
    (compiling'.ops = compiling.ops + 1 /\ compiling'.last.op = "push_constant")
        => PushedAs(CompilingCode, compiling'.p.compiling_chunk.code,
                    compiling'.last.arg)

\* C29: push_constant appends the short opcode and one byte holding the
\* index when the index is at most 255, and otherwise the long opcode and
\* three bytes holding the index with the most significant byte first; the
\* operand the VM reads after the opcode (read_byte after a short one,
\* read_bytes(3) after a long one) is that index, for indices of constants
\* and for slots of locals, up to the largest index of three bytes.
C29_OperandRoundTrip == [][PushStep]_vars

\* push_constant has just emitted GetLongLocal for slot 65536 as the bytes
\* 1, 0, 0, and Constant for 255 in one byte before it.
C29_Witness ==
    /\ compiling.last = [op |-> "push_constant", arg |-> 65536]
    /\ CompilingCode = <<OpConstant, 255, OpGetLongLocal, 1, 0, 0>>


(***************************************************************************)
(* One line for each byte of code.                                         *)
(***************************************************************************)
CompilingLines == compiling.p.compiling_chunk.lines

LinesMatchCode == Len(CompilingLines) = Len(CompilingCode)

\* code2 is code but for the two bytes at the offsets start and start + 1,
\* which code has.
OnlyOperandChanged(code, code2, start) ==
    /\ start + 2 <= Len(code)
    /\ Len(code2) = Len(code)
    /\ \A i \in 1..Len(code) :
           i \notin {start + 1, start + 2} => code2[i] = code[i]

LinesStep ==
    (compiling'.ops = compiling.ops + 1 /\ compiling'.last.op = "patch_jump")
        => /\ OnlyOperandChanged(CompilingCode,
                                 compiling'.p.compiling_chunk.code,
                                 compiling'.last.arg)
           /\ compiling'.p.compiling_chunk.lines = CompilingLines

\* C30: after every sequence of the compiler's emitting operations (push,
\* push_constant, emit_jump, patch_jump, jump_back) the chunk's lines are as
\* many as its bytes of code; patch_jump leaves every byte of code but the
\* two of the operand it patches as it was, and changes neither the length
\* of code nor lines.
C30_OneLinePerByte == []LinesMatchCode /\ [][LinesStep]_vars

\* patch_jump has written the distance 2 over the operand of the jump at
\* offset 0, which a block of two bytes follows; code and lines are five
\* long.
C30_Witness ==
    /\ compiling.last = [op |-> "patch_jump", arg |-> 1]
    /\ ~compiling.p.error
    /\ SubSeq(CompilingCode, 1, 3) = <<OpJumpIfFalse, 0, 2>>
    /\ Len(CompilingCode) = 5
    /\ Len(CompilingLines) = 5


(***************************************************************************)
(* The compile-time locals and the scopes.                                 *)
(***************************************************************************)
\* Every local has a depth from 1 to the current depth.
LocalsWithinDepth(c) ==
    \A i \in 1..Len(c.locals) :
        c.locals[i].depth >= 1 /\ c.locals[i].depth <= c.depth

ScopesInv ==
    /\ LocalsWithinDepth(compiling.p.compiler)
    /\ compiling.p.compiler.depth = 0 => compiling.p.compiler.locals = <<>>

\* The locals of c but those of the scope that is open innermost.
OuterLocals(c) ==
    LET outer(l) == l.depth < c.depth
    IN  SelectSeq(c.locals, outer)

\* end_scope has taken c to c2 and code to code2: the depth is one less, the
\* locals of the closed scope are gone and one Pop stands for each.
ClosedAs(c, c2, code, code2) ==
    /\ c2.depth = c.depth - 1
    /\ c2.locals = OuterLocals(c)
    /\ code2 = code
          \o [i \in 1..(Len(c.locals) - Len(OuterLocals(c))) |-> OpPop]

EndScopeStep ==
    (compiling'.ops = compiling.ops + 1 /\ compiling'.last.op = "end_scope")
        => ClosedAs(compiling.p.compiler, compiling'.p.compiler,
                    CompilingCode, compiling'.p.compiling_chunk.code)

\* C31: at every point each compile-time local has a depth from 1 to the
\* current scope depth, so there is none at depth 0; end_scope takes the
\* depth down by one, removes the locals declared in the scope it closes
\* and no other, and emits one Pop for each of them.
C31_LocalsFollowScopes == []ScopesInv /\ [][EndScopeStep]_vars

\* end_scope has closed an inner scope with two locals: the local of the
\* outer scope is left and two Pops end the code.
C31_Witness ==
    /\ compiling.last.op = "end_scope"
    /\ compiling.p.compiler.depth = 1
    /\ Len(compiling.p.compiler.locals) = 1
    /\ compiling.p.compiler.locals[1].depth = 1
    /\ CompilingCode = <<OpNull, OpNull, OpNull, OpPop, OpPop>>


(***************************************************************************)
(* The conditional jump.                                                   *)
(***************************************************************************)
\* The next instruction is a JumpIfFalse and a value is on the stack.
AtJumpIfFalse ==
    /\ AtInstruction
    /\ NextOpcode = OpJumpIfFalse
    /\ runtime.stack_top >= 1

\* The two bytes of its operand.
JumpIfFalseOffset ==
    chunk.code[runtime.ip + 2] * 256 + chunk.code[runtime.ip + 3]

JumpIfFalseStep ==
    AtJumpIfFalse =>
        /\ pc' = "running"
        /\ IF OperandB.t = "Bool"
           THEN /\ runtime'.ip = runtime.ip + 3
                                   + (IF OperandB.b THEN 0 ELSE JumpIfFalseOffset)
                /\ runtime'.stack_top = runtime.stack_top
                /\ LiveStack' = LiveStack
                /\ reported' = reported
           ELSE /\ runtime'.ip = runtime.ip + 3
                /\ runtime'.stack_top = 0
                /\ reported' = reported + 1

\* C32: JumpIfFalse with Bool false on top of the stack adds its offset to
\* the instruction pointer and with Bool true goes on to the instruction
\* after its operand, leaving the stack as it was in both cases; with
\* another value on top it reports a runtime error, empties the stack and
\* the loop goes on with the instruction after the operand.
C32_JumpIfFalseKeepsStack == [][JumpIfFalseStep]_vars

\* The JumpIfFalse of if 1{...} has found the number: one diagnostic, the
\* stack is empty and the Pop after the operand is next.
C32_Witness ==
    /\ pc = "running"
    /\ source = SrcIfNumber
    /\ reported = 1
    /\ runtime.stack_top = 0
    /\ runtime.ip = 5
    /\ NextOpcode = OpPop


(***************************************************************************)
(* Bytes that are no opcode.                                               *)
(***************************************************************************)
\* The next iteration of the dispatch loop reads a byte from 31 to 255.
AtUnknownByte ==
    /\ AtInstruction
    /\ chunk.code[runtime.ip + 1] \in 31..255

UnknownByteStep ==
    AtUnknownByte =>
        /\ pc' = "running"
        /\ runtime' = [runtime EXCEPT !.ip = @ + 1]
        /\ UNCHANGED <<result, chunk, mem, output, reported>>

\* C33: a code byte from 31 to 255 read as an instruction is skipped: the
\* instruction pointer goes one byte on, the stack, the globals, the objects
\* and the intern set stay as they are, nothing is reported as an error and
\* the dispatch loop goes on.
C33_UnknownByteSkipped == [][UnknownByteStep]_vars

\* The byte 255 has been skipped with two values on the stack, the global g
\* defined and its string interned.
C33_Witness ==
    /\ pc = "running"
    /\ runtime.ip >= 1
    /\ chunk.code[runtime.ip] = 255
    /\ runtime.stack_top = 2
    /\ DOMAIN runtime.globals # {}
    /\ runtime.strings # {}
    /\ Len(runtime.objects) = 1
    /\ reported = 0


(***************************************************************************)
(* Assignment targets.                                                     *)
(***************************************************************************)
\* The call was rejected by the compiler with one diagnostic.
RejectedOnce == result = "CompileError" /\ reported = 1

\* C34: an = is accepted after an identifier parsed at a precedence no
\* higher than Assignment and nowhere else: the chained assignment of
\* let a=1;let b=2;a=b=3; compiles with nothing reported, while 1=2; and
\* a+b=c; are rejected with the diagnostic of the invalid target.
C34_AssignmentTargets ==
    /\ Returned(SrcAssignment) => result # "CompileError" /\ reported = 0
    /\ Returned(SrcAssignNumber) => RejectedOnce
    /\ Returned(SrcAssignSum) => RejectedOnce


(***************************************************************************)
(* The intern set.                                                         *)
(***************************************************************************)
\* The handles of the intern set are those of the object vector, one for
\* each object, all live and of pairwise different contents.
InternInv ==
    /\ Cardinality(runtime.strings) = Len(runtime.objects)
    /\ runtime.strings = {runtime.objects[i] : i \in 1..Len(runtime.objects)}
    /\ \A r \in runtime.strings : Live(mem, r)
    /\ \A r, q \in runtime.strings :
           as_ref(mem, r) = as_ref(mem, q) => r = q

\* The next instruction is an Add whose operands are two strings.
AtStringAdd ==
    /\ AtInstruction
    /\ NextOpcode = OpAdd
    /\ runtime.stack_top >= 2
    /\ IsString(OperandA)
    /\ IsString(OperandB)

\* The handles of the intern set whose contents are val.
Interned(val) == {r \in runtime.strings : as_ref(mem, r) = val}

\* new_string(val) has been called and its handle pushed in place of the
\* two operands: an interned handle of these contents is returned with
\* nothing allocated, and a new object is made when there is none.
NewStringAs(val, top, existing) ==
    /\ pc' = "running"
    /\ runtime'.stack_top = runtime.stack_top - 1
    /\ top.t = "Obj"
    /\ top.ref \in runtime'.strings
    /\ as_ref(mem', top.ref) = val
    /\ IF existing # {}
       THEN /\ top.ref \in existing
            /\ mem' = mem
            /\ runtime'.strings = runtime.strings
            /\ runtime'.objects = runtime.objects
       ELSE /\ ~Live(mem, top.ref)
            /\ runtime'.strings = runtime.strings \cup {top.ref}
            /\ runtime'.objects = Append(runtime.objects, top.ref)

StringAddStep ==
    AtStringAdd =>
        NewStringAs(as_ref(mem, OperandA.ref) \o as_ref(mem, OperandB.ref),
                    ReadSlot(runtime'.stack, runtime.stack_top - 2),
                    Interned(as_ref(mem, OperandA.ref)
                                 \o as_ref(mem, OperandB.ref)))

\* C35: the intern set never holds two handles of strings with equal
\* contents and holds one handle for each object of the object vector;
\* new_string, as Add on two strings calls it, returns the handle already
\* interned for contents that are present and allocates nothing, and
\* allocates one object otherwise.
C35_InternSetHasNoDuplicates == []InternInv /\ [][StringAddStep]_vars

\* Both concatenations of "a"+"b"=="a"+"b" are on the stack as the one
\* handle the intern set holds.
C35_Witness ==
    /\ pc = "running"
    /\ source = SrcEqualConcats
    /\ NextOpcode = OpEqual
    /\ runtime.stack_top = 2
    /\ IsString(OperandA)
    /\ OperandA = OperandB
    /\ runtime.strings = {OperandA.ref}
    /\ Len(runtime.objects) = 1
    /\ Len(output) >= 1


(***************************************************************************)
(* The comparisons >= and <=.                                              *)
(***************************************************************************)
\* The call has printed the two truth values last.
PrintedBools(x, y) ==
    /\ Len(output) >= 2
    /\ output[Len(output) - 1].val = Bool(x)
    /\ output[Len(output)].val = Bool(y)

\* C36: for integers a and b, print(a>=b); prints true exactly when a is
\* greater than or equal to b, and print(a<=b); prints true exactly when a
\* is less than or equal to b.
C36_ComparisonsWithEquality ==
    \A a, b \in CompareNumbers :
        Returned(CompareSource(a, b)) =>
            /\ result = "Ok"
            /\ reported = 0
            /\ PrintedBools(a >= b, a <= b)

\* print(1>=1);print(1<=1); has printed true twice, and before it
\* print(-1>=2);print(-1<=2); false and true.
C36_Witness ==
    /\ Returned(CompareSource(1, 1))
    /\ calls = 2
    /\ Len(output) = 4
    /\ output[1].val = Bool(FALSE)
    /\ output[2].val = Bool(TRUE)
    /\ PrintedBools(TRUE, TRUE)


(***************************************************************************)
(* The Return that ends every chunk.                                       *)
(***************************************************************************)
\* A call is being made or has been made on a source with no declaration.
CalledOnNothing == calls >= 1 /\ source \in {SrcEmpty, SrcOnlyComment}

\* C37: the chunk of every source that compiles is not empty and ends with
\* Return, a source with no declaration included: the chunk that runs ends
\* with Return, and a call on the empty source or on a source of white space
\* and comments does not stop at the assertion of Runtime::interpret and
\* returns Ok.
C37_ChunkEndsWithReturn ==
    /\ pc = "running" =>
           /\ Chunk_len(chunk) > 0
           /\ chunk.code[Chunk_len(chunk)] = OpReturn
    /\ CalledOnNothing => pc # "halted"
    /\ (CalledOnNothing /\ pc = "idle") => result = "Ok"


(***************************************************************************)
(* Termination of compile.                                                 *)
(***************************************************************************)
\* The tokens the parser's scanner has yet to return.
TokensLeft(p) == Len(p.scanner)

\* A call of Scanner::next has consumed a character or returned End.
ScanProgress ==
    (scanner' # scanner \/ token' # token) =>
        \/ scanner'.current > scanner.current
        \/ token'.token_type = "End"

\* A call of declaration has consumed a token or found End.
DeclareProgress ==
    (compiling'.ops = compiling.ops + 1 /\ compiling'.last.op = "declaration")
        => \/ TokensLeft(compiling'.p) < TokensLeft(compiling.p)
           \/ Parser_at_end(compiling'.p)

\* The scanner has returned End and compile has emitted its Return.
CompileDone ==
    /\ token.token_type = "End"
    /\ compiling.last.op = "emit_return"

\* C38: compile terminates on every source: each call of Scanner::next
\* consumes at least one character or returns End, each declaration
\* consumes at least one token or finds End, and the End token and the end
\* of compile are reached.
C38_CompileTerminates ==
    /\ [][ScanProgress /\ DeclareProgress]_vars
    /\ <>CompileDone

\* compile has ended on 1 1 print(2); with an error flagged, after a
\* declaration that ended in panic mode and one that followed it.
C38_Witness ==
    /\ source = <<"1", " ", "1", " ", "p", "r", "i", "n", "t", "(", "2", ")",
                  ";">>
    /\ CompileDone
    /\ compiling.ops = 3
    /\ compiling.p.error
    /\ ~compiling.p.panic

=============================================================================
